---------------------------- MODULE Spec2Model ----------------------------
(***************************************************************************)
(* The persisted job queue of open-notebook: the "jobs" table behind       *)
(* SupabaseJobQueue (src/open_notebook/database/job_queue.py) and the      *)
(* CommandService entry points on top of it (src/api/command_service.py);  *)
(* then the entities (src/open_notebook/domain) and the command handlers   *)
(* that work on them (src/commands).                                       *)
(*                                                                         *)
(* Conventions.  An Optional[T] value is a sequence of length at most one: *)
(* None is <<>> and a present value x is <<x>>.  A Python str that the     *)
(* code inspects or converts (JSON text) is a sequence of one-character    *)
(* strings; names and messages that are only stored and compared are TLA+  *)
(* strings.  A Python value handed to json.dumps is a tagged tuple.        *)
(***************************************************************************)
EXTENDS Integers, Sequences, FiniteSets, TLC

(***************************************************************************)
(* Bounds of the model.                                                    *)
(***************************************************************************)
\* Number of uuid4() draws, hence of submit attempts and of rows.
MaxJobs == 2
\* Number of datetime.now() readings by writing operations.
MaxTime == 3

(***************************************************************************)
(* Optional values and Python truthiness.                                  *)
(***************************************************************************)
None == <<>>

Some(x) == <<x>>

\* bool(s) of an Optional[str] held as Optional[sequence of characters].
TruthyText(o) == o # None /\ o[1] # <<>>

\* bool(s) of an Optional[str] held as Optional[TLA+ string].
TruthyName(o) == o # None /\ o[1] # ""

(***************************************************************************)
(* Python values that travel through json.dumps / json.loads.              *)
(***************************************************************************)
PyNone == <<"NoneType">>

PyBool(b) == <<"bool", b>>

PyInt(n) == <<"int", n>>

PyStr(chars) == <<"str", chars>>

PyList(items) == <<"list", items>>

\* pairs: a sequence of <<key characters, value>>, in insertion order.
PyDict(pairs) == <<"dict", pairs>>

Digits == <<"0", "1", "2", "3", "4", "5", "6", "7", "8", "9">>

DigitSet == {Digits[i] : i \in DOMAIN Digits}

DigitVal(c) == (CHOOSE i \in DOMAIN Digits : Digits[i] = c) - 1

RECURSIVE IntText(_)
IntText(n) ==
    IF n < Len(Digits) THEN <<Digits[n + 1]>>
    ELSE IntText(n \div Len(Digits)) \o <<Digits[(n % Len(Digits)) + 1]>>

Quoted(chars) == <<"\"">> \o chars \o <<"\"">>

\* json.dumps(v) with the default separators (", " and ": ").
RECURSIVE json_dumps(_)
RECURSIVE DumpItems(_)
RECURSIVE DumpPairs(_)
json_dumps(v) ==
    CASE v[1] = "NoneType" -> <<"n", "u", "l", "l">>
      [] v[1] = "bool" -> IF v[2] THEN <<"t", "r", "u", "e">>
                                   ELSE <<"f", "a", "l", "s", "e">>
      [] v[1] = "int" -> IntText(v[2])
      [] v[1] = "str" -> Quoted(v[2])
      [] v[1] = "list" -> <<"[">> \o DumpItems(v[2]) \o <<"]">>
      [] v[1] = "dict" -> <<"{">> \o DumpPairs(v[2]) \o <<"}">>

DumpItems(items) ==
    IF items = <<>> THEN <<>>
    ELSE IF Len(items) = 1 THEN json_dumps(items[1])
    ELSE json_dumps(items[1]) \o <<",", " ">> \o DumpItems(Tail(items))

DumpPairs(pairs) ==
    IF pairs = <<>> THEN <<>>
    ELSE LET one == Quoted(pairs[1][1]) \o <<":", " ">> \o json_dumps(pairs[1][2])
         IN  IF Len(pairs) = 1 THEN one
             ELSE one \o <<",", " ">> \o DumpPairs(Tail(pairs))

(***************************************************************************)
(* json.loads: a recursive-descent reading of the text.  A parse yields    *)
(* [ok, val, rest]; ok = FALSE stands for JSONDecodeError.                 *)
(***************************************************************************)
ParseFail == [ok |-> FALSE, val |-> PyNone, rest |-> <<>>]

Parsed(v, rest) == [ok |-> TRUE, val |-> v, rest |-> rest]

StartsWith(s, p) == Len(s) >= Len(p) /\ SubSeq(s, 1, Len(p)) = p

Drop(s, n) == SubSeq(s, n + 1, Len(s))

RECURSIVE SkipWs(_)
SkipWs(s) == IF s # <<>> /\ Head(s) = " " THEN SkipWs(Tail(s)) ELSE s

RECURSIVE DigitRun(_)
DigitRun(s) ==
    IF s # <<>> /\ Head(s) \in DigitSet THEN <<Head(s)>> \o DigitRun(Tail(s))
    ELSE <<>>

RECURSIVE DigitsValue(_, _)
DigitsValue(ds, acc) ==
    IF ds = <<>> THEN acc
    ELSE DigitsValue(Tail(ds), acc * Len(Digits) + DigitVal(Head(ds)))

\* The characters up to the closing quote (the texts of the model hold no
\* escapes), or failure when the string is not terminated.
RECURSIVE ParseChars(_, _)
ParseChars(s, acc) ==
    IF s = <<>> THEN ParseFail
    ELSE IF Head(s) = "\"" THEN Parsed(acc, Tail(s))
    ELSE ParseChars(Tail(s), Append(acc, Head(s)))

RECURSIVE ParseValue(_)
RECURSIVE ParseItems(_, _)
RECURSIVE ParsePairs(_, _)
ParseValue(s0) ==
    LET s == SkipWs(s0) IN
    IF s = <<>> THEN ParseFail
    ELSE IF StartsWith(s, <<"n", "u", "l", "l">>) THEN Parsed(PyNone, Drop(s, 4))
    ELSE IF StartsWith(s, <<"t", "r", "u", "e">>) THEN Parsed(PyBool(TRUE), Drop(s, 4))
    ELSE IF StartsWith(s, <<"f", "a", "l", "s", "e">>)
         THEN Parsed(PyBool(FALSE), Drop(s, 5))
    ELSE IF Head(s) \in DigitSet
         THEN LET ds == DigitRun(s)
              IN  IF Len(ds) > 1 /\ Head(ds) = "0" THEN ParseFail
                  ELSE Parsed(PyInt(DigitsValue(ds, 0)), Drop(s, Len(ds)))
    ELSE IF Head(s) = "\""
         THEN LET r == ParseChars(Tail(s), <<>>)
              IN  IF r.ok THEN Parsed(PyStr(r.val), r.rest) ELSE ParseFail
    ELSE IF Head(s) = "["
         THEN LET t == SkipWs(Tail(s))
              IN  IF t # <<>> /\ Head(t) = "]" THEN Parsed(PyList(<<>>), Tail(t))
                  ELSE ParseItems(t, <<>>)
    ELSE IF Head(s) = "{"
         THEN LET t == SkipWs(Tail(s))
              IN  IF t # <<>> /\ Head(t) = "}" THEN Parsed(PyDict(<<>>), Tail(t))
                  ELSE ParsePairs(t, <<>>)
    ELSE ParseFail

ParseItems(s, acc) ==
    LET r == ParseValue(s) IN
    IF ~r.ok THEN ParseFail
    ELSE LET t == SkipWs(r.rest)
             items == Append(acc, r.val)
         IN  IF t = <<>> THEN ParseFail
             ELSE IF Head(t) = "," THEN ParseItems(Tail(t), items)
             ELSE IF Head(t) = "]" THEN Parsed(PyList(items), Tail(t))
             ELSE ParseFail

ParsePairs(s0, acc) ==
    LET s == SkipWs(s0) IN
    IF s = <<>> \/ Head(s) # "\"" THEN ParseFail
    ELSE LET k == ParseChars(Tail(s), <<>>) IN
         IF ~k.ok THEN ParseFail
         ELSE LET c == SkipWs(k.rest) IN
              IF c = <<>> \/ Head(c) # ":" THEN ParseFail
              ELSE LET r == ParseValue(Tail(c)) IN
                   IF ~r.ok THEN ParseFail
                   ELSE LET t == SkipWs(r.rest)
                            pairs == Append(acc, <<k.val, r.val>>)
                        IN  IF t = <<>> THEN ParseFail
                            ELSE IF Head(t) = "," THEN ParsePairs(Tail(t), pairs)
                            ELSE IF Head(t) = "}" THEN Parsed(PyDict(pairs), Tail(t))
                            ELSE ParseFail

\* json.loads(text): the value, or ok = FALSE for JSONDecodeError (also
\* raised for text left over after the value).
json_loads(text) ==
    LET r == ParseValue(text) IN
    IF r.ok /\ SkipWs(r.rest) = <<>> THEN Parsed(r.val, <<>>) ELSE ParseFail


(***************************************************************************)
(* The job store.                                                          *)
(***************************************************************************)
VARIABLES
    jobs,       \* the rows of the "jobs" table, in insertion order
    now,        \* the reading of datetime.now(); every call of a writing
                \* operation (submit, update, cancel) finds it one later
    uuids,      \* how many uuid4() values have been drawn
    returned,   \* the job ids that a submit call has returned to its caller
    last,       \* the last call: its name, arguments and outcome
    db,         \* the entity tables: source, source_embedding, source_insight,
                \* note, and the default_models configuration row
    run         \* the calls in flight: what each has done so far

vars == <<jobs, now, uuids, returned, last, db, run>>

\* The entity tables before any entity is created, with no default
\* embedding model chosen.
EmptyDb ==
    [source |-> <<>>, source_embedding |-> <<>>, source_insight |-> <<>>,
     note |-> <<>>, transformation |-> <<>>, default_embedding_model |-> None,
     episode |-> <<>>, episode_profile |-> <<>>, speaker_profile |-> <<>>]

\* No call in flight.
NoRun == <<>>

\* class JobStatus(Enum): the values.
JobStatusValues == {"pending", "in_progress", "completed", "failed", "cancelled"}

\* The fixed message of cancel_command_job.
CancelMessage == "Job cancelled by user"

\* get_job_status for an id with no row.
NotFoundMessage == "Job not found"

\* str(e) of the exception a failing store call raises.
StoreErrorText == "store error"

\* str(e) of json.JSONDecodeError and of JobStatus(<unknown value>).
DecodeErrorText == "JSONDecodeError"

EnumErrorText == "ValueError"

\* RuntimeError of loop.run_until_complete while another loop is running.
LoopErrorText == "Cannot run the event loop while another loop is running"

(***************************************************************************)
(* The Supabase table operations the queue uses.                           *)
(***************************************************************************)
\* table(..).insert(row).execute()
TableInsert(t, row) == Append(t, row)

\* table(..).select("*").eq("id", id).execute().data
TableSelectById(t, id) == SelectSeq(t, LAMBDA r : r.id = id)

\* A row with the columns of upd overwritten.
MergeRow(row, upd) ==
    [c \in DOMAIN row |-> IF c \in DOMAIN upd THEN upd[c] ELSE row[c]]

\* table(..).update(upd).eq("id", id).execute(): every row with that id.
TableUpdateById(t, upd, id) ==
    [i \in DOMAIN t |-> IF t[i].id = id THEN MergeRow(t[i], upd) ELSE t[i]]

(***************************************************************************)
(* SupabaseJobQueue.submit_job                                             *)
(***************************************************************************)
\* A submit_job that stores the job as already started.
job_data_started(job_id, app_name, command_name, args, t) ==
    [id |-> job_id,
     app_name |-> app_name,
     command_name |-> command_name,
     args |-> json_dumps(args),
     status |-> "in_progress",
     progress |-> 0,
     result |-> None,
     error_message |-> None,
     created_at |-> t,
     updated_at |-> t]

\* job_data: the row submit_job inserts; result and error_message are not
\* given and are stored NULL.
job_data(job_id, app_name, command_name, args, t) ==
    [id |-> job_id,
     app_name |-> app_name,
     command_name |-> command_name,
     args |-> json_dumps(args),
     status |-> "pending",
     progress |-> 0,
     result |-> None,
     error_message |-> None,
     created_at |-> t,
     updated_at |-> t]

\* A submit_job whose except branch logs the error and falls through to
\* return the id.
submit_outcome_swallowed(job_id, fault) ==
    [raised |-> FALSE, ret |-> Some(job_id), error |-> ""]

\* What submit_job does on a failing insert (the except branch re-raises)
\* and on a successful one: [raised, ret].
submit_outcome(job_id, fault) ==
    IF fault THEN [raised |-> TRUE, ret |-> None, error |-> StoreErrorText]
    ELSE [raised |-> FALSE, ret |-> Some(job_id), error |-> ""]

\* The body of submit_job, reached through the entry point named op.
DoSubmit(op, app_name, command_name, args, fault) ==
    /\ uuids < MaxJobs
    /\ now < MaxTime
    /\ LET job_id == uuids + 1
           out == submit_outcome(job_id, fault)
       IN  /\ uuids' = uuids + 1
           /\ now' = now + 1
           /\ jobs' = IF fault THEN jobs
                      ELSE TableInsert(jobs,
                               job_data(job_id, app_name, command_name, args, now))
           /\ returned' = IF out.raised THEN returned
                          ELSE returned \cup {out.ret[1]}
           /\ last' = [op |-> op, app_name |-> app_name,
                       command_name |-> command_name, args |-> args,
                       fault |-> fault, raised |-> out.raised,
                       error |-> out.error, ret |-> out.ret]
           /\ UNCHANGED <<db, run>>

\* await job_queue.submit_job(app_name, command_name, args)
SubmitJob(app_name, command_name, args, fault) ==
    DoSubmit("submit_job", app_name, command_name, args, fault)

\* submit_command and CommandService.submit_command_job: the synchronous
\* wrapper makes a new event loop and runs submit_job on it; when the calling
\* thread already runs a loop, run_until_complete raises RuntimeError before
\* the coroutine starts, and nothing else happens.
LoopRefused(op, app_name, command_name, args) ==
    /\ last' = [op |-> op, app_name |-> app_name,
                command_name |-> command_name, args |-> args,
                fault |-> FALSE, raised |-> TRUE,
                error |-> LoopErrorText, ret |-> None]
    /\ UNCHANGED <<jobs, now, uuids, returned, db, run>>

SubmitCommand(app_name, command_name, args, fault, loop_running) ==
    IF loop_running
    THEN LoopRefused("submit_command", app_name, command_name, args)
    ELSE DoSubmit("submit_command", app_name, command_name, args, fault)

\* Awaited, hence always called with a loop running; its except re-raises.
SubmitCommandJob(module_name, command_name, command_args) ==
    LoopRefused("submit_command_job", module_name, command_name, command_args)

(***************************************************************************)
(* SupabaseJobQueue.get_job_status, CommandService.get_command_status      *)
(***************************************************************************)
JobResult(status, result, error_message, progress) ==
    [status |-> status, result |-> result,
     error_message |-> error_message, progress |-> progress]

\* A get_job_status without the check for an empty selection: data[0] raises
\* IndexError, which the except branch reports.
job_result_of_unchecked(data) ==
    IF data = <<>>
    THEN JobResult("failed", PyNone, Some("list index out of range"), None)
    ELSE LET job == data[1] IN
         JobResult(job.status,
                   IF TruthyText(job.result)
                   THEN json_loads(job.result[1]).val ELSE PyNone,
                   job.error_message,
                   Some(job.progress))

\* The JobResult built from the selected rows.
job_result_of(data) ==
    IF data = <<>> THEN JobResult("failed", PyNone, Some(NotFoundMessage), None)
    ELSE LET job == data[1] IN
         IF job.status \notin JobStatusValues
         THEN JobResult("failed", PyNone, Some(EnumErrorText), None)
         ELSE IF TruthyText(job.result) /\ ~json_loads(job.result[1]).ok
         THEN JobResult("failed", PyNone, Some(DecodeErrorText), None)
         ELSE JobResult(job.status,
                        IF TruthyText(job.result)
                        THEN json_loads(job.result[1]).val ELSE PyNone,
                        job.error_message,
                        Some(job.progress))

get_job_status(t, job_id, fault) ==
    IF fault THEN JobResult("failed", PyNone, Some(StoreErrorText), None)
    ELSE job_result_of(TableSelectById(t, job_id))

\* The dict CommandService.get_command_status returns; created and updated
\* are the times the JobResult object was made.
GetCommandStatus(job_id, fault) ==
    /\ LET status == get_job_status(jobs, job_id, fault)
       IN  last' = [op |-> "get_command_status", job_id |-> job_id,
                    fault |-> fault, raised |-> FALSE,
                    ret |-> [job_id |-> job_id,
                             status |-> status.status,
                             result |-> status.result,
                             error_message |-> status.error_message,
                             created |-> now,
                             updated |-> now,
                             progress |-> status.progress]]
    /\ UNCHANGED <<jobs, now, uuids, returned, db, run>>

(***************************************************************************)
(* SupabaseJobQueue.update_job_status, CommandService.cancel_command_job   *)
(***************************************************************************)
\* bool(v) of a Python value.
PyTruthy(v) ==
    CASE v[1] = "NoneType" -> FALSE
      [] v[1] = "bool" -> v[2]
      [] v[1] = "int" -> v[2] # 0
      [] OTHER -> v[2] # <<>>

\* An update_data that tests "if result:" where the code tests
\* "if result is not None:".
update_data_if_truthy(status, result, error_message, progress, t) ==
    [status |-> status, updated_at |-> t]
    @@ (IF PyTruthy(result) THEN "result" :> Some(json_dumps(result)) ELSE <<>>)
    @@ (IF error_message # None THEN "error_message" :> error_message ELSE <<>>)
    @@ (IF progress # None THEN "progress" :> progress[1] ELSE <<>>)

\* An update_data that also stamps created_at, as job_data does.
update_data_with_created(status, result, error_message, progress, t) ==
    [status |-> status, updated_at |-> t, created_at |-> t]
    @@ (IF result # PyNone THEN "result" :> Some(json_dumps(result)) ELSE <<>>)
    @@ (IF error_message # None THEN "error_message" :> error_message ELSE <<>>)
    @@ (IF progress # None THEN "progress" :> progress[1] ELSE <<>>)

\* An update_data that writes result and error_message unconditionally, a
\* None argument clearing the column.
update_data_overwriting(status, result, error_message, progress, t) ==
    [status |-> status, updated_at |-> t,
     result |-> IF result # PyNone THEN Some(json_dumps(result)) ELSE None,
     error_message |-> error_message]
    @@ (IF progress # None THEN "progress" :> progress[1] ELSE <<>>)

\* update_data: status and updated_at always, the rest when not None.  The
\* results of the model are JSON documents, which json.dumps accepts.
update_data(status, result, error_message, progress, t) ==
    [status |-> status, updated_at |-> t]
    @@ (IF result # PyNone THEN "result" :> Some(json_dumps(result)) ELSE <<>>)
    @@ (IF error_message # None THEN "error_message" :> error_message ELSE <<>>)
    @@ (IF progress # None THEN "progress" :> progress[1] ELSE <<>>)

\* An update that leaves alone a job whose stored status is terminal.
update_job_status_guarded(t, job_id, status, result, error_message, progress, clock, fault) ==
    IF fault \/ \E i \in DOMAIN t :
                    t[i].id = job_id /\ t[i].status \in {"completed", "failed", "cancelled"}
    THEN t
    ELSE TableUpdateById(t, update_data(status, result, error_message, progress, clock),
                         job_id)

\* The table after update_job_status; a store error is logged and swallowed.
update_job_status(t, job_id, status, result, error_message, progress, clock, fault) ==
    IF fault THEN t
    ELSE TableUpdateById(t, update_data(status, result, error_message, progress, clock),
                         job_id)

UpdateJobStatus(job_id, status, result, error_message, progress, fault) ==
    /\ now < MaxTime
    /\ now' = now + 1
    /\ jobs' = update_job_status(jobs, job_id, status, result, error_message,
                                 progress, now, fault)
    /\ last' = [op |-> "update_job_status", job_id |-> job_id, status |-> status,
                result |-> result, error_message |-> error_message,
                progress |-> progress, fault |-> fault, raised |-> FALSE,
                ret |-> None]
    /\ UNCHANGED <<uuids, returned, db, run>>

\* A cancel that passes no error_message.
cancel_without_message(t, job_id, clock, fault) ==
    update_job_status(t, job_id, "cancelled", PyNone, None, None, clock, fault)

\* The table after cancel_command_job.
cancel_command_job(t, job_id, clock, fault) ==
    update_job_status(t, job_id, "cancelled", PyNone, Some(CancelMessage), None,
                      clock, fault)

\* A cancel that also stops the handler that is running.
CancelCommandJob_stopping(job_id, fault) ==
    /\ now < MaxTime
    /\ now' = now + 1
    /\ jobs' = cancel_command_job(jobs, job_id, now, fault)
    /\ last' = [op |-> "cancel_command_job", job_id |-> job_id,
                fault |-> fault, raised |-> FALSE, ret |-> Some(TRUE)]
    /\ run' = NoRun
    /\ UNCHANGED <<uuids, returned, db>>

CancelCommandJob(job_id, fault) ==
    /\ now < MaxTime
    /\ now' = now + 1
    /\ jobs' = cancel_command_job(jobs, job_id, now, fault)
    /\ last' = [op |-> "cancel_command_job", job_id |-> job_id,
                fault |-> fault, raised |-> FALSE, ret |-> Some(TRUE)]
    /\ UNCHANGED <<uuids, returned, db, run>>

(***************************************************************************)
(* SupabaseJobQueue.list_jobs, CommandService.list_command_jobs            *)
(***************************************************************************)
\* limit: int = 50
DefaultLimit == 50

\* The request list_jobs builds: the order and the limit first, then one
\* eq filter for each argument that is truthy.
list_query(app_name, command_name, status, limit) ==
    [order_desc |-> "created_at",
     limit |-> limit,
     eq |-> (IF TruthyName(app_name) THEN "app_name" :> app_name[1] ELSE <<>>)
            @@ (IF TruthyName(command_name)
                THEN "command_name" :> command_name[1] ELSE <<>>)
            @@ (IF status # None THEN "status" :> status[1] ELSE <<>>)]

Matches(row, eq) == \A c \in DOMAIN eq : row[c] = eq[c]

RECURSIVE OrderByDesc(_, _)
OrderByDesc(rows, col) ==
    IF rows = <<>> THEN <<>>
    ELSE LET i == CHOOSE k \in DOMAIN rows :
                      \A j \in DOMAIN rows : rows[j][col] <= rows[k][col]
         IN  <<rows[i]>>
             \o OrderByDesc(SubSeq(rows, 1, i - 1) \o SubSeq(rows, i + 1, Len(rows)),
                            col)

Take(rows, n) == SubSeq(rows, 1, IF n < Len(rows) THEN n ELSE Len(rows))

\* A store that applies the clauses in the order the builder was called in:
\* the order and the limit before the filters.
ExecuteSelectLimitFirst(t, query) ==
    SelectSeq(Take(OrderByDesc(t, query.order_desc), query.limit),
              LAMBDA r : Matches(r, query.eq))

\* query.execute().data: the store applies the filters of the request, then
\* its order, then its limit, whatever the order the builder was called in.
ExecuteSelect(t, query) ==
    Take(OrderByDesc(SelectSeq(t, LAMBDA r : Matches(r, query.eq)),
                     query.order_desc),
         query.limit)

\* list_jobs: the rows, or [] when the store call raises.
list_jobs(t, app_name, command_name, status, limit, fault) ==
    IF fault THEN <<>>
    ELSE ExecuteSelect(t, list_query(app_name, command_name, status, limit))

\* status_enum of list_command_jobs: JobStatus(status_filter), or None when
\* the filter is falsy or names no status (a warning is logged).
status_enum(status_filter) ==
    IF TruthyName(status_filter) /\ status_filter[1] \in JobStatusValues
    THEN status_filter ELSE None

\* limit = None stands for a call that leaves the limit to its default.
ListCommandJobs(module_filter, command_filter, status_filter, limit, fault) ==
    /\ LET lim == IF limit = None THEN DefaultLimit ELSE limit[1]
           status == status_enum(status_filter)
       IN  last' = [op |-> "list_command_jobs", app_name |-> module_filter,
                    command_name |-> command_filter,
                    status_filter |-> status_filter, status |-> status,
                    limit_arg |-> limit, limit |-> lim,
                    fault |-> fault, raised |-> FALSE,
                    ret |-> list_jobs(jobs, module_filter, command_filter,
                                      status, lim, fault)]
    /\ UNCHANGED <<jobs, now, uuids, returned, db, run>>

(***************************************************************************)
(* The arguments the callers of the model pass.                            *)
(***************************************************************************)
AppNames == {"open_notebook", "podcast"}

CommandNames == {"process_source", "rebuild_embeddings"}

\* args of a job: a dict.
ArgsValues == {PyDict(<< <<<<"i", "d">>, PyInt(1)>> >>)}

\* result payloads: none and a dict.
ResultValues == {PyNone, PyDict(<< <<<<"o", "k">>, PyBool(TRUE)>> >>)}

ErrorMessages == {None, Some("boom")}

ProgressValues == {None, Some(1)}

\* The ids a caller may ask about: those drawn so far and those not yet.
JobIds == 1 .. MaxJobs

\* JSON documents: the scalars (the falsy ones among them), and the lists and
\* dicts built from them.
JsonScalars ==
    {PyNone, PyBool(FALSE), PyBool(TRUE), PyInt(0), PyInt(1), PyInt(42),
     PyStr(<<>>), PyStr(<<"a">>)}

JsonFlat ==
    JsonScalars
    \cup {PyList(<<>>), PyDict(<<>>)}
    \cup {PyList(<<a>>) : a \in JsonScalars}
    \cup {PyList(<<a, b>>) : a \in JsonScalars, b \in {PyInt(0), PyStr(<<"a">>)}}
    \cup {PyDict(<< <<k, a>> >>) : k \in {<<>>, <<"k">>}, a \in JsonScalars}

JsonValues ==
    JsonFlat
    \cup {PyDict(<< <<<<"k">>, a>>, <<<<"n">>, PyList(<<b>>)>> >>) :
              a \in {PyDict(<<>>), PyList(<<>>), PyInt(0)},
              b \in {PyDict(<<>>), PyNone, PyList(<<PyBool(FALSE)>>)}}

\* Filters of a listing: absent, empty, and names of jobs (or of none).
AppFilters == {None, Some(""), Some("open_notebook")}

CommandFilters == {None, Some("process_source")}

StatusFilters == {None, Some("completed"), Some("bogus")}

Limits == {None, Some(1)}

(***************************************************************************)
(* The queue under its callers: submissions, status updates, cancels and   *)
(* status queries of one application.                                      *)
(***************************************************************************)
Init ==
    /\ jobs = <<>>
    /\ now = 0
    /\ uuids = 0
    /\ returned = {}
    /\ last = [op |-> "none"]
    /\ db = EmptyDb
    /\ run = NoRun

Next ==
    \/ \E g \in ArgsValues, f \in BOOLEAN :
           SubmitJob("open_notebook", "process_source", g, f)
    \/ \E g \in ArgsValues, f \in BOOLEAN, l \in BOOLEAN :
           SubmitCommand("open_notebook", "process_source", g, f, l)
    \/ \E g \in ArgsValues :
           SubmitCommandJob("open_notebook", "process_source", g)
    \/ \E id \in JobIds, f \in BOOLEAN : GetCommandStatus(id, f)
    \/ \E id \in JobIds, s \in JobStatusValues, r \in ResultValues,
          e \in ErrorMessages, p \in ProgressValues, f \in BOOLEAN :
           UpdateJobStatus(id, s, r, e, p, f)
    \/ \E id \in JobIds, f \in BOOLEAN : CancelCommandJob(id, f)

Spec == Init /\ [][Next]_vars

(***************************************************************************)
(* Listings: jobs of several applications and commands, some completed,    *)
(* listed under every combination of filters and limits.                   *)
(***************************************************************************)
NextList ==
    \/ \E a \in AppNames, c \in CommandNames :
           SubmitJob(a, c, PyDict(<<>>), FALSE)
    \/ \E id \in JobIds : UpdateJobStatus(id, "completed", PyNone, None, None, FALSE)
    \/ \E a \in AppFilters, c \in CommandFilters, s \in StatusFilters,
          n \in Limits, f \in BOOLEAN :
           ListCommandJobs(a, c, s, n, f)

SpecList == Init /\ [][NextList]_vars

(***************************************************************************)
(* Result payloads: each JSON document written as the result of a job and  *)
(* read back.                                                              *)
(***************************************************************************)
NextRoundTrip ==
    \/ SubmitJob("open_notebook", "process_source", PyDict(<<>>), FALSE)
    \/ \E id \in JobIds, r \in JsonValues :
           UpdateJobStatus(id, "completed", r, None, None, FALSE)
    \/ \E id \in JobIds : GetCommandStatus(id, FALSE)

SpecRoundTrip == Init /\ [][NextRoundTrip]_vars

(***************************************************************************)
(* Properties of the job queue.                                            *)
(***************************************************************************)
SubmitOps == {"submit_job", "submit_command", "submit_command_job"}

TerminalStatuses == {"completed", "failed", "cancelled"}

\* The positions of the rows with the given id.
RowsWithId(t, id) == {i \in DOMAIN t : t[i].id = id}

\* The step is a call of the writing operation named op.
WriteStep(op) == last'.op = op /\ now' = now + 1

\* The step is a status query of the given job whose lookup succeeds.
StatusQueryOf(id) ==
    /\ last'.op = "get_command_status"
    /\ last'.job_id = id
    /\ ~last'.fault

\* C1: a status query of a job id that submit has just returned, with no
\* operation in between, answers status PENDING and progress 0.
C1_StatusAfterSubmit ==
    [][(last.op \in SubmitOps /\ ~last.raised /\ StatusQueryOf(last.ret[1]))
         => (last'.ret.status = "pending" /\ last'.ret.progress = Some(0))]_vars

\* C1 witness: a status query answered PENDING with progress 0 for a returned
\* id whose submission is the latest write to the store.
C1_Witness ==
    /\ last.op = "get_command_status"
    /\ ~last.fault
    /\ last.job_id \in returned
    /\ last.ret.status = "pending"
    /\ last.ret.progress = Some(0)
    /\ \E i \in RowsWithId(jobs, last.job_id) : jobs[i].created_at + 1 = now

\* C2: a stored status that is terminal (COMPLETED, FAILED, CANCELLED) is
\* never changed by any later update_status or cancel call.
C2_TerminalStatusIsFinal ==
    [][\A i \in DOMAIN jobs :
           jobs[i].status \in TerminalStatuses
             => (i \in DOMAIN jobs' /\ jobs'[i].status = jobs[i].status)]_vars

\* C3: cancel of a job whose status is terminal reports success and leaves
\* the status, result, error_message and progress of the record as they were.
C3_CancelOfTerminalIsNoOp ==
    [][WriteStep("cancel_command_job")
         => /\ last'.ret = Some(TRUE)
            /\ \A i \in RowsWithId(jobs, last'.job_id) :
                   jobs[i].status \in TerminalStatuses
                     => /\ jobs'[i].status = jobs[i].status
                        /\ jobs'[i].result = jobs[i].result
                        /\ jobs'[i].error_message = jobs[i].error_message
                        /\ jobs'[i].progress = jobs[i].progress]_vars

\* C4: cancel of a job whose status is PENDING, the store accepting the
\* update, leaves it CANCELLED with a non-null error_message and returns true.
C4_CancelOfPending ==
    [][(WriteStep("cancel_command_job") /\ ~last'.fault)
         => /\ last'.ret = Some(TRUE)
            /\ ~last'.raised
            /\ \A i \in RowsWithId(jobs, last'.job_id) :
                   jobs[i].status = "pending"
                     => /\ jobs'[i].status = "cancelled"
                        /\ jobs'[i].error_message # None]_vars

\* C4 witness: a job cancelled by the write that followed its submission.
C4_Witness ==
    /\ last.op = "cancel_command_job"
    /\ ~last.fault
    /\ last.ret = Some(TRUE)
    /\ \E i \in RowsWithId(jobs, last.job_id) :
           /\ jobs[i].status = "cancelled"
           /\ jobs[i].error_message = Some(CancelMessage)
           /\ jobs[i].updated_at = jobs[i].created_at + 1
           /\ jobs[i].updated_at + 1 = now

\* The job was updated by the write that followed its submission, and by no
\* write since.
UpdatedOnceSinceSubmit(id) ==
    \E i \in RowsWithId(jobs, id) :
        /\ jobs[i].updated_at = jobs[i].created_at + 1
        /\ jobs[i].updated_at + 1 = now

\* C5: submit, then update_status(id, COMPLETED, result = R), then a status
\* query of id answers COMPLETED with a result equal to R, for every JSON
\* document R (None, empty and falsy ones included); a non-null R is also
\* read back after an update of a job that was updated before.
C5_ResultRoundTrip ==
    [][(/\ last.op = "update_job_status"
        /\ last.status = "completed"
        /\ ~last.fault
        /\ RowsWithId(jobs, last.job_id) # {}
        /\ (last.result # PyNone \/ UpdatedOnceSinceSubmit(last.job_id))
        /\ StatusQueryOf(last.job_id))
         => (last'.ret.status = "completed" /\ last'.ret.result = last.result)]_vars

\* C5 witness: the empty dict, whose JSON text is "{}", read back as the
\* result of a job completed by the write that followed its submission.
C5_Witness ==
    /\ last.op = "get_command_status"
    /\ ~last.fault
    /\ last.ret.status = "completed"
    /\ last.ret.result = PyDict(<<>>)
    /\ UpdatedOnceSinceSubmit(last.job_id)
    /\ \E i \in RowsWithId(jobs, last.job_id) : jobs[i].result = Some(<<"{", "}">>)

\* C6: a submit whose insert fails raises and returns no id; every id that a
\* submit returned has exactly one record in the store (so no job is dropped
\* and no id is returned twice).
C6_SubmitNeverDrops ==
    /\ last.op \in SubmitOps
         => /\ last.fault => (last.raised /\ last.ret = None)
            /\ last.raised => last.ret = None
            /\ ~last.raised => (last.ret # None /\ last.ret[1] \in returned)
    /\ \A id \in returned : Cardinality(RowsWithId(jobs, id)) = 1
    /\ Len(jobs) = Cardinality(returned)

\* C6 witness: an insert failed and raised, and the submission after it
\* returned an id that has its one record.
C6_Witness ==
    /\ last.op \in SubmitOps
    /\ ~last.raised
    /\ uuids > Cardinality(returned)
    /\ Cardinality(RowsWithId(jobs, last.ret[1])) = 1

\* C7: a status query does not raise: for an id with no record it answers
\* FAILED with the message "Job not found", and when the lookup fails in the
\* store it answers FAILED with the text of the error.
C7_StatusOfMissingJob ==
    last.op = "get_command_status"
      => /\ ~last.raised
         /\ last.fault
              => /\ last.ret.status = "failed"
                 /\ last.ret.error_message = Some(StoreErrorText)
         /\ (~last.fault /\ RowsWithId(jobs, last.job_id) = {})
              => /\ last.ret.status = "failed"
                 /\ last.ret.error_message = Some(NotFoundMessage)

\* C7 witness: a query of an id that has no record, in a store that holds
\* another job, answered FAILED "Job not found".
C7_Witness ==
    /\ last.op = "get_command_status"
    /\ ~last.fault
    /\ jobs # <<>>
    /\ RowsWithId(jobs, last.job_id) = {}
    /\ last.ret.status = "failed"
    /\ last.ret.error_message = Some(NotFoundMessage)

\* C8: a record is inserted with the id, app_name, command_name, args and
\* created_at of its submission, and no step changes any of them or removes
\* the record.
C8_SubmittedFieldsImmutable ==
    [][/\ \A i \in DOMAIN jobs :
              /\ i \in DOMAIN jobs'
              /\ jobs'[i].id = jobs[i].id
              /\ jobs'[i].app_name = jobs[i].app_name
              /\ jobs'[i].command_name = jobs[i].command_name
              /\ jobs'[i].args = jobs[i].args
              /\ jobs'[i].created_at = jobs[i].created_at
       /\ \A i \in DOMAIN jobs' \ DOMAIN jobs :
              /\ last'.op \in SubmitOps
              /\ jobs'[i].id = last'.ret[1]
              /\ jobs'[i].app_name = last'.app_name
              /\ jobs'[i].command_name = last'.command_name
              /\ json_loads(jobs'[i].args).val = last'.args
              /\ jobs'[i].created_at = now]_vars

\* C8 witness: a record that an update_status and then a cancel have written
\* to, after its submission.
C8_Witness ==
    /\ last.op = "cancel_command_job"
    /\ ~last.fault
    /\ \E i \in RowsWithId(jobs, last.job_id) :
           /\ jobs[i].status = "cancelled"
           /\ jobs[i].result # None
           /\ jobs[i].updated_at = jobs[i].created_at + 2

\* C9: an update_status that the store accepts writes the status and the
\* time of the call to every record with the id, writes result, error_message
\* and progress where the argument is not None and keeps the stored value
\* where it is None, and changes no other record.
C9_PartialUpdate ==
    [][(WriteStep("update_job_status") /\ ~last'.fault)
         => /\ DOMAIN jobs' = DOMAIN jobs
            /\ \A i \in DOMAIN jobs :
                   IF jobs[i].id = last'.job_id
                   THEN /\ jobs'[i].status = last'.status
                        /\ jobs'[i].updated_at = now
                        /\ jobs'[i].updated_at > jobs[i].updated_at
                        /\ jobs'[i].result =
                               IF last'.result = PyNone THEN jobs[i].result
                               ELSE Some(json_dumps(last'.result))
                        /\ jobs'[i].error_message =
                               IF last'.error_message = None
                               THEN jobs[i].error_message
                               ELSE last'.error_message
                        /\ jobs'[i].progress =
                               IF last'.progress = None THEN jobs[i].progress
                               ELSE last'.progress[1]
                   ELSE jobs'[i] = jobs[i]]_vars

\* C9 witness: an update that passed no result, error_message or progress, of
\* a record that holds all three from an earlier update.
C9_Witness ==
    /\ last.op = "update_job_status"
    /\ ~last.fault
    /\ last.result = PyNone
    /\ last.error_message = None
    /\ last.progress = None
    /\ \E i \in RowsWithId(jobs, last.job_id) :
           /\ jobs[i].status = last.status
           /\ jobs[i].result # None
           /\ jobs[i].error_message # None
           /\ jobs[i].progress = 1
           /\ jobs[i].updated_at + 1 = now

\* The positions of the rows a listing's filters select: a filter is given
\* when its argument is a non-empty name (a status: when it is a JobStatus).
Selected(t, call) ==
    {i \in DOMAIN t :
        /\ TruthyName(call.app_name) => t[i].app_name = call.app_name[1]
        /\ TruthyName(call.command_name) => t[i].command_name = call.command_name[1]
        /\ call.status # None => t[i].status = call.status[1]}

\* C10: a listing that the store answers returns only records that match
\* every filter given, without repetition, by created_at descending, as many
\* as the limit allows (50 when none is passed), and no record it leaves out
\* is more recent than one it returns.
C10_ListFilteredRecentFirst ==
    (last.op = "list_command_jobs" /\ ~last.fault)
      => LET sel == Selected(jobs, last)
             out == last.ret
         IN  /\ last.limit = (IF last.limit_arg = None THEN 50 ELSE last.limit_arg[1])
             /\ Len(out) = (IF Cardinality(sel) < last.limit
                            THEN Cardinality(sel) ELSE last.limit)
             /\ \A k \in DOMAIN out : \E i \in sel : out[k] = jobs[i]
             /\ \A k, m \in DOMAIN out : k < m => out[k].id # out[m].id
             /\ \A k, m \in DOMAIN out :
                    k < m => out[k].created_at >= out[m].created_at
             /\ \A i \in sel :
                    (\A k \in DOMAIN out : out[k] # jobs[i])
                      => \A k \in DOMAIN out : jobs[i].created_at <= out[k].created_at

\* C10 witness: a listing by app_name with limit 1 that returns the one
\* matching record although a record of another application is more recent.
C10_Witness ==
    /\ last.op = "list_command_jobs"
    /\ ~last.fault
    /\ TruthyName(last.app_name)
    /\ last.limit = 1
    /\ Len(last.ret) = 1
    /\ \E i \in DOMAIN jobs :
           /\ jobs[i].app_name # last.app_name[1]
           /\ jobs[i].created_at > last.ret[1].created_at

(***************************************************************************)
(* The entity store: the repository functions (database/repository.py) on  *)
(* the tables of db.  A table is the sequence of its rows in insertion     *)
(* order; a nullable column holds an Optional value.  Text that the code   *)
(* inspects (full_text, content) is a sequence of characters.              *)
(***************************************************************************)
\* Entities of each kind (source, note, insight) that are created.
MaxRows == 1

\* The fields of the entity classes, "id" apart; those declared Optional.
Fields(table) ==
    CASE table = "source" -> {"notebook_id", "full_text", "processing_status"}
      [] table = "note" -> {"notebook_id", "content"}
      [] table = "source_insight" -> {"source_id", "insight_type", "content"}
      [] table = "source_embedding" -> {"source_id", "content", "embedding"}
      [] table = "transformation" -> {"name"}
      [] table = "episode" -> {"name", "briefing", "content", "status",
                               "audio_file", "transcript", "outline"}

OptionalFields(table) ==
    CASE table = "source" -> {"full_text"}
      [] table = "note" -> {"content"}
      [] table = "episode" -> {"audio_file", "transcript", "outline"}
      [] OTHER -> {}

\* The columns of a table: note has an embedding column that is no field
\* of the Note class.
Columns(table) ==
    {"id"} \cup Fields(table) \cup (IF table = "note" THEN {"embedding"} ELSE {})

\* repo_create: table(..).insert(data).execute().data[0].  The store gives
\* the row the next id and leaves NULL the columns data does not name.
repo_create(t, table, data) ==
    LET row == [c \in Columns(table) |->
                   IF c = "id" THEN Len(t) + 1
                   ELSE IF c \in DOMAIN data THEN data[c] ELSE None]
    IN  [rows |-> TableInsert(t, row), data |-> row]

\* repo_update_int_id: table(..).update(data).eq("id", id).execute().data
repo_update_int_id(t, id, data) ==
    LET rows == TableUpdateById(t, data, id)
    IN  [rows |-> rows, data |-> TableSelectById(rows, id)]

\* repo_query(table, filters={column: value})
repo_query(t, column, value) == SelectSeq(t, LAMBDA r : r[column] = value)

\* str(e) of what the entity layer raises.
NotFoundText == "not found"

SaveErrorText == "Error saving record"

ValidationErrorText == "Note content cannot be empty"

\* not v.strip()
Blank(chars) == \A i \in DOMAIN chars : chars[i] = " "

\* cls(**row): the object of a row; columns that are no field are dropped.
FromRow(table, row) ==
    [c \in {"id"} \cup Fields(table) |-> IF c = "id" THEN Some(row.id) ELSE row[c]]

\* Note.content_must_not_be_empty, run when a Note is built or validated.
content_must_not_be_empty(table, obj) ==
    ~(table = "note" /\ obj.content # None /\ Blank(obj.content[1]))

\* ObjectModel.get: the object, or NotFoundError when the id is empty, the
\* query fails, no row has the id or the row does not validate.
get(table, d, id, fault) ==
    LET result == repo_query(d[table], "id", id)
    IN  IF id = 0 \/ fault \/ result = <<>>
           \/ ~content_must_not_be_empty(table, FromRow(table, result[1]))
        THEN [raised |-> TRUE, obj |-> None, error |-> NotFoundText]
        ELSE [raised |-> FALSE, obj |-> Some(FromRow(table, result[1])), error |-> ""]

(***************************************************************************)
(* The embedding model: ModelManager.get_embedding_model (ai/models.py)    *)
(* and the embedding and chunking capabilities it is used with.            *)
(***************************************************************************)
\* A lookup that finds a model whatever the default_models row names.
get_embedding_model_assumed(d, fault) ==
    IF fault THEN [raised |-> TRUE, model |-> None]
    ELSE [raised |-> FALSE, model |-> Some(1)]

\* The model the default_models row names: None when it names none; the
\* lookup of the row or of the model may raise.
get_embedding_model(d, fault) ==
    IF fault THEN [raised |-> TRUE, model |-> None]
    ELSE [raised |-> FALSE, model |-> d.default_embedding_model]

\* EMBEDDING_MODEL.aembed(texts): one non-empty vector for each text.
aembed(texts) == [i \in DOMAIN texts |-> <<Len(texts[i])>>]

\* Characters of a chunk of split_text.
ChunkSize == 2

\* split_text(text): the text cut into consecutive chunks.
RECURSIVE split_text(_)
split_text(text) ==
    IF text = <<>> THEN <<>>
    ELSE <<Take(text, ChunkSize)>> \o split_text(Drop(text, ChunkSize))

(***************************************************************************)
(* ObjectModel.save (domain/base.py) with the embedding hook, and          *)
(* Source.vectorize (domain/notebook.py).  The calls that may fail for     *)
(* reasons outside the program (a store call, the model lookup, the        *)
(* embedding call) take the set of the failures that happen.               *)
(***************************************************************************)
\* needs_embedding() and get_embedding_content(): False and None in
\* ObjectModel, overridden by Note alone.
needs_embedding(table) == table = "note"

get_embedding_content(table, obj) == IF table = "note" THEN obj.content ELSE None

\* ObjectModel._prepare_save_data: the fields that are not None, "id" apart.
prepare_save_data(table, obj) ==
    [c \in {f \in Fields(table) : f \notin OptionalFields(table) \/ obj[f] # None}
        |-> obj[c]]

\* The store failure of a save, when b.
W(b) == IF b THEN {"write"} ELSE {}

\* A save that writes the row before it calls the embedding model.
save_writing_first(table, obj, d, fault) ==
    LET data == prepare_save_data(table, obj)
        content == get_embedding_content(table, obj)
        wanted == needs_embedding(table) /\ TruthyText(content)
        model == IF wanted THEN get_embedding_model(d, "model" \in fault)
                 ELSE [raised |-> FALSE, model |-> None]
        embedded == wanted /\ ~model.raised /\ model.model # None
        full == IF embedded
                THEN data @@ ("embedding" :> Some(aembed(<<content[1]>>)[1]))
                ELSE data
        written == IF obj.id = None
                   THEN LET c == repo_create(d[table], table, full)
                        IN  [rows |-> c.rows, data |-> <<c.data>>]
                   ELSE repo_update_int_id(d[table], obj.id[1], full)
    IN  IF \/ ~content_must_not_be_empty(table, obj)
           \/ model.raised
           \/ embedded /\ "embed" \in fault
           \/ "write" \in fault
        THEN [raised |-> TRUE,
              db |-> IF embedded /\ "embed" \in fault
                     THEN [d EXCEPT ![table] =
                              (IF obj.id = None
                               THEN repo_create(d[table], table, data).rows
                               ELSE repo_update_int_id(d[table], obj.id[1],
                                                       data).rows)]
                     ELSE d,
              obj |-> obj, data |-> <<>>,
              error |-> IF content_must_not_be_empty(table, obj)
                        THEN SaveErrorText ELSE ValidationErrorText]
        ELSE [raised |-> FALSE, db |-> [d EXCEPT ![table] = written.rows],
              obj |-> IF written.data # <<>> THEN FromRow(table, written.data[1])
                      ELSE obj,
              data |-> full, error |-> ""]

\* A save that refuses to write when no embedding model is configured.
save_requiring_model(table, obj, d, fault) ==
    LET data == prepare_save_data(table, obj)
        content == get_embedding_content(table, obj)
        wanted == needs_embedding(table) /\ TruthyText(content)
        model == IF wanted THEN get_embedding_model(d, "model" \in fault)
                 ELSE [raised |-> FALSE, model |-> None]
        embedded == wanted /\ ~model.raised /\ model.model # None
        full == IF embedded
                THEN data @@ ("embedding" :> Some(aembed(<<content[1]>>)[1]))
                ELSE data
        written == IF obj.id = None
                   THEN LET c == repo_create(d[table], table, full)
                        IN  [rows |-> c.rows, data |-> <<c.data>>]
                   ELSE repo_update_int_id(d[table], obj.id[1], full)
    IN  IF \/ ~content_must_not_be_empty(table, obj)
           \/ model.raised
           \/ wanted /\ ~embedded
           \/ embedded /\ "embed" \in fault
           \/ "write" \in fault
        THEN [raised |-> TRUE, db |-> d, obj |-> obj, data |-> <<>>,
              error |-> SaveErrorText]
        ELSE [raised |-> FALSE, db |-> [d EXCEPT ![table] = written.rows],
              obj |-> IF written.data # <<>> THEN FromRow(table, written.data[1])
                      ELSE obj,
              data |-> full, error |-> ""]

\* ObjectModel.save: validate, attach the embedding when one is needed and a
\* model is configured, insert or update, and take over the stored row.
save(table, obj, d, fault) ==
    LET data == prepare_save_data(table, obj)
        content == get_embedding_content(table, obj)
        wanted == needs_embedding(table) /\ TruthyText(content)
        model == IF wanted THEN get_embedding_model(d, "model" \in fault)
                 ELSE [raised |-> FALSE, model |-> None]
        embedded == wanted /\ ~model.raised /\ model.model # None
        full == IF embedded
                THEN data @@ ("embedding" :> Some(aembed(<<content[1]>>)[1]))
                ELSE data
        written == IF obj.id = None
                   THEN LET c == repo_create(d[table], table, full)
                        IN  [rows |-> c.rows, data |-> <<c.data>>]
                   ELSE repo_update_int_id(d[table], obj.id[1], full)
    IN  IF \/ ~content_must_not_be_empty(table, obj)
           \/ model.raised
           \/ embedded /\ "embed" \in fault
           \/ "write" \in fault
        THEN [raised |-> TRUE, db |-> d, obj |-> obj, data |-> <<>>,
              error |-> IF content_must_not_be_empty(table, obj)
                        THEN SaveErrorText ELSE ValidationErrorText]
        ELSE [raised |-> FALSE, db |-> [d EXCEPT ![table] = written.rows],
              obj |-> IF written.data # <<>> THEN FromRow(table, written.data[1])
                      ELSE obj,
              data |-> full, error |-> ""]

\* str(e) of the errors of vectorize.
NoTextText == "Source has no text to vectorize"

NoModelText == "Embedding model not configured"

EmbedErrorText == "embedding failed"

\* for record in records: await repo_create("source_embedding", record)
RECURSIVE create_records(_, _)
create_records(t, records) ==
    IF records = <<>> THEN t
    ELSE create_records(repo_create(t, "source_embedding", Head(records)).rows,
                        Tail(records))

\* A vectorize that does not look whether there is text to split.
vectorize_unchecked(source, d, fails) ==
    LET marked(s1) ==
            LET self == s1.obj
                text == self.full_text
                model == get_embedding_model(s1.db, "model" \in fails)
                chunks == IF TruthyText(text) THEN split_text(text[1]) ELSE <<>>
                embeddings == aembed(chunks)
                embedding_records ==
                    [i \in DOMAIN chunks |->
                        [source_id |-> self.id[1], content |-> chunks[i],
                         embedding |-> embeddings[i]]]
                error == IF model.raised \/ model.model = None THEN NoModelText
                         ELSE IF "embed" \in fails THEN EmbedErrorText
                         ELSE ""
                inserted ==
                    IF "create" \in fails /\ embedding_records # <<>>
                    THEN SubSeq(embedding_records, 1, Len(embedding_records) - 1)
                    ELSE embedding_records
                d2 == IF error # "" THEN s1.db
                      ELSE [s1.db EXCEPT
                               !.source_embedding = create_records(@, inserted)]
                ended(s2, s3) ==
                    IF s1.raised
                    THEN [raised |-> TRUE, db |-> d, obj |-> s1.obj,
                          error |-> s1.error]
                    ELSE IF error = "" /\ "create" \notin fails /\ ~s2.raised
                    THEN [raised |-> FALSE, db |-> s2.db, obj |-> s2.obj,
                          error |-> ""]
                    ELSE [raised |-> TRUE, db |-> s3.db, obj |-> s3.obj,
                          error |-> IF s3.raised THEN s3.error
                                    ELSE IF error # "" THEN error
                                    ELSE StoreErrorText]
            IN  ended(save("source", [self EXCEPT !.processing_status = "completed"],
                           d2, W("save_completed" \in fails)),
                      save("source", [self EXCEPT !.processing_status = "failed"],
                           d2, W("save_failed" \in fails)))
    IN  marked(save("source", [source EXCEPT !.processing_status = "in_progress"],
                    d, W("save_in_progress" \in fails)))

\* Source.vectorize.  fails names the calls that fail, among
\* "save_in_progress", "model", "embed", "create" (the insertion of the last
\* record), "save_completed" and "save_failed".
vectorize(source, d, fails) ==
    LET marked(s1) ==
            LET self == s1.obj
                text == self.full_text
                model == get_embedding_model(s1.db, "model" \in fails)
                chunks == split_text(text[1])
                embeddings == aembed(chunks)
                embedding_records ==
                    [i \in DOMAIN chunks |->
                        [source_id |-> self.id[1], content |-> chunks[i],
                         embedding |-> embeddings[i]]]
                error == IF ~TruthyText(text) THEN NoTextText
                         ELSE IF model.raised \/ model.model = None THEN NoModelText
                         ELSE IF "embed" \in fails THEN EmbedErrorText
                         ELSE ""
                inserted ==
                    IF "create" \in fails
                    THEN SubSeq(embedding_records, 1, Len(embedding_records) - 1)
                    ELSE embedding_records
                d2 == IF error # "" THEN s1.db
                      ELSE [s1.db EXCEPT
                               !.source_embedding = create_records(@, inserted)]
                ended(s2, s3) ==
                    IF s1.raised
                    THEN [raised |-> TRUE, db |-> d, obj |-> s1.obj,
                          error |-> s1.error]
                    ELSE IF error = "" /\ "create" \notin fails /\ ~s2.raised
                    THEN [raised |-> FALSE, db |-> s2.db, obj |-> s2.obj,
                          error |-> ""]
                    ELSE [raised |-> TRUE, db |-> s3.db, obj |-> s3.obj,
                          error |-> IF s3.raised THEN s3.error
                                    ELSE IF error # "" THEN error
                                    ELSE StoreErrorText]
            IN  ended(save("source", [self EXCEPT !.processing_status = "completed"],
                           d2, W("save_completed" \in fails)),
                      save("source", [self EXCEPT !.processing_status = "failed"],
                           d2, W("save_failed" \in fails)))
    IN  marked(save("source", [source EXCEPT !.processing_status = "in_progress"],
                    d, W("save_in_progress" \in fails)))

(***************************************************************************)
(* process_source_command (commands/source_commands.py)                    *)
(***************************************************************************)
\* str(e) of the errors of the handlers.
TransformationNotFoundText == "Transformation not found"

GraphErrorText == "source_graph failed"

\* source_graph.ainvoke, the ingestion workflow: it stores the content as
\* the full_text of the source, adds one insight for each transformation
\* and, when embed is set, vectorizes the source; it raises when it fails
\* (fail) or when that vectorize raises.
source_graph(d, source_id, content, transformation_objects, embed, fail) ==
    LET loaded == get("source", d, source_id, FALSE).obj[1]
        insights ==
            [i \in DOMAIN transformation_objects |->
                [source_id |-> source_id,
                 insight_type |-> transformation_objects[i].name,
                 content |-> content]]
        RECURSIVE add_insights(_, _)
        add_insights(t, records) ==
            IF records = <<>> THEN t
            ELSE add_insights(repo_create(t, "source_insight", Head(records)).rows,
                              Tail(records))
        stored(saved) ==
            LET d1 == [saved.db EXCEPT !.source_insight = add_insights(@, insights)]
                ended(v) ==
                    IF fail
                    THEN [raised |-> TRUE, db |-> d, source |-> loaded,
                          error |-> GraphErrorText]
                    ELSE [raised |-> v.raised, db |-> v.db, source |-> v.obj,
                          error |-> IF v.raised THEN v.error ELSE ""]
            IN  ended(IF embed THEN vectorize(saved.obj, d1, {})
                      ELSE [raised |-> FALSE, db |-> d1, obj |-> saved.obj,
                            error |-> ""])
    IN  stored(save("source", [loaded EXCEPT !.full_text = Some(content)], d, {}))

\* The payloads process_source_command returns (processing_time apart).
source_success(source_id, embedded_chunks, insights_created) ==
    [success |-> TRUE, source_id |-> source_id,
     embedded_chunks |-> Some(embedded_chunks),
     insights_created |-> Some(insights_created), error_message |-> None]

\* A failure payload that reports success.
source_failure_as_success(source_id, error) ==
    [success |-> TRUE, source_id |-> source_id, embedded_chunks |-> None,
     insights_created |-> None, error_message |-> Some(error)]

source_failure(source_id, error) ==
    [success |-> FALSE, source_id |-> source_id, embedded_chunks |-> None,
     insights_created |-> None, error_message |-> Some(error)]

\* A process_source_command whose except clause does not save the source.
process_source_unmarked(d, source_id, content, transformations, embed, fails) ==
    LET loaded(g) ==
          LET marked(s1) ==
                LET missing ==
                        \E i \in DOMAIN transformations :
                            get("transformation", s1.db, transformations[i],
                                FALSE).raised
                    transformation_objects ==
                        [i \in DOMAIN transformations |->
                            get("transformation", s1.db, transformations[i],
                                FALSE).obj[1]]
                    transformed(graph) ==
                      LET completed(s2) ==
                            LET processed_source == s2.obj
                                embedded_chunks ==
                                    IF embed
                                    THEN Len(repo_query(s2.db.source_embedding,
                                                        "source_id",
                                                        processed_source.id[1]))
                                    ELSE 0
                                insights_created ==
                                    Len(repo_query(s2.db.source_insight, "source_id",
                                                   processed_source.id[1]))
                                error ==
                                    IF s1.raised THEN s1.error
                                    ELSE IF missing THEN TransformationNotFoundText
                                    ELSE IF graph.raised THEN graph.error
                                    ELSE IF s2.raised THEN s2.error
                                    ELSE IF \/ embed /\ "chunks" \in fails
                                            \/ "insights" \in fails
                                    THEN StoreErrorText
                                    ELSE ""
                                reached == IF s1.raised \/ missing THEN s1.db
                                           ELSE IF graph.raised \/ s2.raised
                                           THEN graph.db
                                           ELSE s2.db
                            IN  IF g.raised
                                THEN [raised |-> FALSE, db |-> d,
                                      ret |-> Some(source_failure(source_id, g.error))]
                                ELSE IF error = ""
                                THEN [raised |-> FALSE, db |-> s2.db,
                                      ret |-> Some(source_success(
                                                  processed_source.id[1],
                                                  embedded_chunks, insights_created))]
                                ELSE [raised |-> FALSE, db |-> reached,
                                      ret |-> Some(source_failure(source_id, error))]
                      IN  completed(save("source",
                                         [graph.source EXCEPT
                                             !.processing_status = "completed"],
                                         graph.db, W("save_completed" \in fails)))
                IN  transformed(source_graph(s1.db, source_id, content,
                                             transformation_objects, embed,
                                             "graph" \in fails))
          IN  marked(save("source",
                          [g.obj[1] EXCEPT !.processing_status = "in_progress"],
                          d, W("save_in_progress" \in fails)))
    IN  loaded(get("source", d, source_id, "get" \in fails))

\* process_source_command.  fails names the calls that fail, among "get",
\* "save_in_progress", "graph", "save_completed", "chunks", "insights" and
\* "save_failed" (the save of the except clause, which nothing catches).
process_source(d, source_id, content, transformations, embed, fails) ==
    LET loaded(g) ==
          LET marked(s1) ==
                LET source == s1.obj
                    missing ==
                        \E i \in DOMAIN transformations :
                            get("transformation", s1.db, transformations[i],
                                FALSE).raised
                    transformation_objects ==
                        [i \in DOMAIN transformations |->
                            get("transformation", s1.db, transformations[i],
                                FALSE).obj[1]]
                    transformed(graph) ==
                      LET completed(s2) ==
                            LET processed_source == s2.obj
                                embedded_chunks ==
                                    IF embed
                                    THEN Len(repo_query(s2.db.source_embedding,
                                                        "source_id",
                                                        processed_source.id[1]))
                                    ELSE 0
                                insights_created ==
                                    Len(repo_query(s2.db.source_insight, "source_id",
                                                   processed_source.id[1]))
                                error ==
                                    IF s1.raised THEN s1.error
                                    ELSE IF missing THEN TransformationNotFoundText
                                    ELSE IF graph.raised THEN graph.error
                                    ELSE IF s2.raised THEN s2.error
                                    ELSE IF \/ embed /\ "chunks" \in fails
                                            \/ "insights" \in fails
                                    THEN StoreErrorText
                                    ELSE ""
                                reached == IF s1.raised \/ missing THEN s1.db
                                           ELSE IF graph.raised \/ s2.raised
                                           THEN graph.db
                                           ELSE s2.db
                                excepted(s3) ==
                                    IF g.raised
                                    THEN [raised |-> FALSE, db |-> d,
                                          ret |-> Some(source_failure(source_id,
                                                                      g.error))]
                                    ELSE IF error = ""
                                    THEN [raised |-> FALSE, db |-> s2.db,
                                          ret |-> Some(source_success(
                                                      processed_source.id[1],
                                                      embedded_chunks,
                                                      insights_created))]
                                    ELSE IF s3.raised
                                    THEN [raised |-> TRUE, db |-> reached,
                                          ret |-> None]
                                    ELSE [raised |-> FALSE, db |-> s3.db,
                                          ret |-> Some(source_failure(source_id,
                                                                      error))]
                            IN  excepted(save("source",
                                              [source EXCEPT
                                                  !.processing_status = "failed"],
                                              reached, W("save_failed" \in fails)))
                      IN  completed(save("source",
                                         [graph.source EXCEPT
                                             !.processing_status = "completed"],
                                         graph.db, W("save_completed" \in fails)))
                IN  transformed(source_graph(s1.db, source_id, content,
                                             transformation_objects, embed,
                                             "graph" \in fails))
          IN  marked(save("source",
                          [g.obj[1] EXCEPT !.processing_status = "in_progress"],
                          d, W("save_in_progress" \in fails)))
    IN  loaded(get("source", d, source_id, "get" \in fails))

\* A handler that records its own completion on the job rows.
ProcessSource_completing_jobs(source_id, content, transformations, embed, fails) ==
    /\ now < MaxTime
    /\ now' = now + 1
    /\ \E out \in {process_source(db, source_id, content, transformations, embed,
                                  fails)} :
           /\ db' = out.db
           /\ last' = [op |-> "process_source", source_id |-> source_id,
                       transformations |-> transformations, embed |-> embed,
                       fails |-> fails, raised |-> out.raised, ret |-> out.ret]
    /\ jobs' = [i \in DOMAIN jobs |->
                   [jobs[i] EXCEPT !.status = IF last'.raised THEN "failed"
                                              ELSE "completed",
                                   !.progress = 100]]
    /\ UNCHANGED <<uuids, returned, run>>

\* The handler called with its arguments; it reads the clock as it starts.
ProcessSource(source_id, content, transformations, embed, fails) ==
    /\ now < MaxTime
    /\ now' = now + 1
    /\ \E out \in {process_source(db, source_id, content, transformations, embed,
                                  fails)} :
           /\ db' = out.db
           /\ last' = [op |-> "process_source", source_id |-> source_id,
                       transformations |-> transformations, embed |-> embed,
                       fails |-> fails, raised |-> out.raised, ret |-> out.ret]
    /\ UNCHANGED <<jobs, uuids, returned, run>>

(***************************************************************************)
(* A source under process_source: the default embedding model is chosen   *)
(* or cleared, and the handler is called on the source, and on an id that  *)
(* no source has, with each of its calls failing in turn.                  *)
(***************************************************************************)
\* PUT /models/defaults: the default embedding model is set or cleared.
UpdateDefaultModels(default_embedding_model) ==
    /\ db' = [db EXCEPT !.default_embedding_model = default_embedding_model]
    /\ last' = [op |-> "update_default_models", raised |-> FALSE]
    /\ UNCHANGED <<jobs, now, uuids, returned, run>>

\* The content the source is processed with.
Contents == {<<"a", "b", "c">>}

\* The one stored transformation has id 1.
TransformationLists == {<<1>>, <<1, 2>>}

\* The stored source has id 1.
SourceIds == {1, 2}

ModelIds == {None, Some(1)}

\* One call of the handler fails, or none; the save of the except clause
\* fails or not.
ProcessSourceFaults ==
    {fs \in SUBSET {"get", "save_in_progress", "graph", "save_completed",
                    "chunks", "insights", "save_failed"} :
        Cardinality(fs \ {"save_failed"}) <= 1}

InitSource ==
    /\ jobs = <<>>
    /\ now = 0
    /\ uuids = 0
    /\ returned = {}
    /\ last = [op |-> "none"]
    /\ db = [EmptyDb EXCEPT
                !.transformation = <<[id |-> 1, name |-> "summary"]>>,
                !.source = <<[id |-> 1, notebook_id |-> 1, full_text |-> None,
                              processing_status |-> "pending"]>>]
    /\ run = NoRun

NextSource ==
    \/ \E m \in ModelIds : UpdateDefaultModels(m)
    \/ \E id \in SourceIds, c \in Contents, ts \in TransformationLists,
          e \in BOOLEAN, fs \in ProcessSourceFaults :
           ProcessSource(id, c, ts, e, fs)

SpecSource == InitSource /\ [][NextSource]_vars

(***************************************************************************)
(* Properties of process_source.                                           *)
(***************************************************************************)
HandlerOps ==
    {"process_source", "generate_podcast", "rebuild_embeddings", "embed_single_item"}

\* The stored processing_status of the source with the given id.
StoredStatus(id) ==
    db.source[CHOOSE i \in RowsWithId(db.source, id) : TRUE].processing_status

\* The ids of the last call's transformations list that no stored
\* transformation has.
MissingTransformations ==
    {last.transformations[i] : i \in DOMAIN last.transformations}
        \ {db.transformation[i].id : i \in DOMAIN db.transformation}

\* C11: no command handler ever raises to its caller: whatever call fails,
\* the save of the failed status included, the handler returns a payload
\* that has success = false and an error_message when a step failed.
C11_HandlersNeverRaise ==
    last.op \in HandlerOps =>
        /\ ~last.raised
        /\ last.ret # None
        /\ ~last.ret[1].success => last.ret[1].error_message # None

\* C12: process_source called, with a store that accepts its calls, on an
\* existing source and with a transformations list in which some id has no
\* Transformation record returns success = false, and the stored
\* processing_status of the source is then "failed".
C12_MissingTransformationFails ==
    (/\ last.op = "process_source"
     /\ last.fails = {}
     /\ RowsWithId(db.source, last.source_id) # {}
     /\ MissingTransformations # {})
    => /\ ~last.raised
       /\ last.ret # None
       /\ ~last.ret[1].success
       /\ last.ret[1].error_message = Some(TransformationNotFoundText)
       /\ StoredStatus(last.source_id) = "failed"

C12_Witness ==
    /\ last.op = "process_source"
    /\ last.fails = {}
    /\ last.source_id = 1
    /\ last.transformations = <<1, 2>>
    /\ ~last.raised
    /\ ~last.ret[1].success
    /\ StoredStatus(1) = "failed"

ItemTable(item_type) ==
    CASE item_type = "source" -> "source"
      [] item_type = "note" -> "note"
      [] item_type = "insight" -> "source_insight"

UnknownItemTypeText == "Unknown item type"

\* Load one item and embed it: vectorize for a source, save for a note or
\* an insight.  fault is "load" when the load fails, "embed" when the
\* embedding call does, "" when neither.
embed_item(d, item_type, item_id, fault) ==
    LET g == get(ItemTable(item_type), d, item_id, fault = "load")
        fs == IF fault = "embed" THEN {"embed"} ELSE {}
        ended(done) ==
            [raised |-> done.raised, db |-> done.db, error |-> done.error]
    IN  IF g.raised THEN [raised |-> TRUE, db |-> d, error |-> g.error]
        ELSE ended(IF item_type = "source" THEN vectorize(g.obj[1], d, fs)
                   ELSE save(ItemTable(item_type), g.obj[1], d, fs))

\* embed_single_item_command: its payload (processing_time apart).
embed_single_item(d, item_type, item_id, fault) ==
    LET known == item_type \in {"source", "note", "insight"}
        ended(done) ==
            IF known /\ ~done.raised
            THEN [db |-> done.db,
                  ret |-> [success |-> TRUE, item_type |-> item_type,
                           item_id |-> item_id, error_message |-> None]]
            ELSE [db |-> IF known THEN done.db ELSE d,
                  ret |-> [success |-> FALSE, item_type |-> item_type,
                           item_id |-> item_id,
                           error_message |-> Some(IF known THEN done.error
                                                  ELSE UnknownItemTypeText)]]
    IN  ended(embed_item(d, item_type, item_id, fault))

EmbedSingleItem(item_type, item_id, fault) ==
    /\ now < MaxTime
    /\ now' = now + 1
    /\ \E out \in {embed_single_item(db, item_type, item_id, fault)} :
           /\ db' = out.db
           /\ last' = [op |-> "embed_single_item", item_type |-> item_type,
                       item_id |-> item_id, fault |-> fault, raised |-> FALSE,
                       ret |-> Some(out.ret)]
    /\ UNCHANGED <<jobs, uuids, returned, run>>

\* The ids of the rows of t whose column is not NULL, in stored order.
IdsWhereNotNull(t, column) ==
    LET rows == SelectSeq(t, LAMBDA r : r[column] # None)
    IN  [i \in DOMAIN rows |-> rows[i].id]

\* collect_items_for_rebuild: the ids of each included category; mode is
\* not looked at.
collect_items_for_rebuild(d, mode, include_sources, include_notes, include_insights) ==
    [sources |-> IF include_sources THEN IdsWhereNotNull(d.source, "full_text")
                 ELSE <<>>,
     notes |-> IF include_notes THEN IdsWhereNotNull(d.note, "content") ELSE <<>>,
     insights |-> IF include_insights
                  THEN [i \in DOMAIN d.source_insight |-> d.source_insight[i].id]
                  ELSE <<>>]

\* The fault of one item under env: env.load and env.embed are the items
\* whose load and whose embedding call fail.
ItemFault(env, item_type, item_id) ==
    IF <<item_type, item_id>> \in env.load THEN "load"
    ELSE IF <<item_type, item_id>> \in env.embed THEN "embed"
    ELSE ""

\* A loop that gives up at the first item that fails.
RECURSIVE rebuild_loop_aborting(_, _, _, _)
rebuild_loop_aborting(d, item_type, ids, env) ==
    LET tried(one) ==
            LET went_on(rest) ==
                    [db |-> rest.db,
                     attempts |-> <<[item_type |-> item_type, item_id |-> Head(ids),
                                     ok |-> ~one.raised]>> \o rest.attempts]
            IN  went_on(IF one.raised THEN [db |-> one.db, attempts |-> <<>>]
                        ELSE rebuild_loop_aborting(one.db, item_type, Tail(ids), env))
    IN  IF ids = <<>> THEN [db |-> d, attempts |-> <<>>]
        ELSE tried(embed_item(d, item_type, Head(ids),
                              ItemFault(env, item_type, Head(ids))))

\* One of the three loops of rebuild_embeddings_command: each id in turn is
\* loaded and embedded inside its own try; attempts tells, for each turn,
\* the item and whether it was counted as processed (ok) or as failed.
RECURSIVE rebuild_loop(_, _, _, _)
rebuild_loop(d, item_type, ids, env) ==
    LET tried(one) ==
            LET went_on(rest) ==
                    [db |-> rest.db,
                     attempts |-> <<[item_type |-> item_type, item_id |-> Head(ids),
                                     ok |-> ~one.raised]>> \o rest.attempts]
            IN  went_on(rebuild_loop(one.db, item_type, Tail(ids), env))
    IN  IF ids = <<>> THEN [db |-> d, attempts |-> <<>>]
        ELSE tried(embed_item(d, item_type, Head(ids),
                              ItemFault(env, item_type, Head(ids))))

NoModelConfiguredText == "No embedding model configured."

\* The payload of rebuild_embeddings_command (processing_time apart).
rebuild_payload(success, total_items, processed_items, failed_items, error) ==
    [success |-> success, total_items |-> total_items,
     processed_items |-> processed_items, failed_items |-> failed_items,
     error_message |-> error]

\* rebuild_embeddings_command.  env.fails names the calls that fail outside
\* the loops: "model" (the lookup of the embedding model) and "collect" (a
\* query of collect_items_for_rebuild, whose filter the store may reject).
rebuild_embeddings(d, mode, include_sources, include_notes, include_insights, env) ==
    LET model == get_embedding_model(d, "model" \in env.fails)
        items == collect_items_for_rebuild(d, mode, include_sources, include_notes,
                                           include_insights)
        total_items == Len(items.sources) + Len(items.notes) + Len(items.insights)
        ended(attempts, d3) ==
            LET Count(ok) == Cardinality({i \in DOMAIN attempts : attempts[i].ok = ok})
            IN  [db |-> d3, items |-> Some(items), attempts |-> attempts,
                 ret |-> rebuild_payload(TRUE, total_items, Count(TRUE),
                                         Count(FALSE), None)]
        insights(l1, l2, l3) == ended(l1.attempts \o l2.attempts \o l3.attempts, l3.db)
        notes(l1, l2) == insights(l1, l2, rebuild_loop(l2.db, "insight",
                                                       items.insights, env))
        sources(l1) == notes(l1, rebuild_loop(l1.db, "note", items.notes, env))
    IN  IF model.raised \/ model.model = None
        THEN [db |-> d, items |-> None, attempts |-> <<>>,
              ret |-> rebuild_payload(FALSE, 0, 0, 0, Some(NoModelConfiguredText))]
        ELSE IF "collect" \in env.fails
        THEN [db |-> d, items |-> None, attempts |-> <<>>,
              ret |-> rebuild_payload(FALSE, 0, 0, 0, Some(StoreErrorText))]
        ELSE IF total_items = 0
        THEN [db |-> d, items |-> Some(items), attempts |-> <<>>,
              ret |-> rebuild_payload(TRUE, 0, 0, 0, None)]
        ELSE sources(rebuild_loop(d, "source", items.sources, env))

RebuildEmbeddings(mode, include_sources, include_notes, include_insights, env) ==
    /\ now < MaxTime
    /\ now' = now + 1
    /\ \E out \in {rebuild_embeddings(db, mode, include_sources, include_notes,
                                      include_insights, env)} :
           /\ db' = out.db
           /\ last' = [op |-> "rebuild_embeddings", mode |-> mode, env |-> env,
                       include |-> <<include_sources, include_notes,
                                     include_insights>>,
                       items |-> out.items, attempts |-> out.attempts,
                       raised |-> FALSE, ret |-> Some(out.ret)]
    /\ UNCHANGED <<jobs, uuids, returned, run>>

\* await source.vectorize() on the stored source with the given id.
Vectorize(source_id, fails) ==
    /\ now < MaxTime
    /\ RowsWithId(db.source, source_id) # {}
    /\ now' = now + 1
    /\ \E out \in {vectorize(get("source", db, source_id, FALSE).obj[1], db, fails)} :
           /\ db' = out.db
           /\ last' = [op |-> "vectorize", source_id |-> source_id, fails |-> fails,
                       raised |-> out.raised, error |-> out.error]
    /\ UNCHANGED <<jobs, uuids, returned, run>>

(***************************************************************************)
(* Embedding: three stored sources (one with text, one with empty text,    *)
(* one with none), a note and an insight are vectorized, embedded one by   *)
(* one and rebuilt in batches, with and without an embedding model, and    *)
(* with loads and embedding calls that fail.                               *)
(***************************************************************************)
SeededSources ==
    <<[id |-> 1, notebook_id |-> 1, full_text |-> Some(<<"a", "b", "c">>),
       processing_status |-> "pending"],
      [id |-> 2, notebook_id |-> 1, full_text |-> Some(<<>>),
       processing_status |-> "pending"],
      [id |-> 3, notebook_id |-> 1, full_text |-> None,
       processing_status |-> "pending"]>>

SeededNotes ==
    <<[id |-> 1, notebook_id |-> 1, content |-> Some(<<"h", "i">>),
       embedding |-> None]>>

SeededInsights ==
    <<[id |-> 1, source_id |-> 1, insight_type |-> "summary",
       content |-> <<"a">>]>>

\* The items the batch can collect, and those an input names.
Items == {<<"source", 1>>, <<"source", 2>>, <<"note", 1>>, <<"insight", 1>>}

ItemTypes == {"source", "note", "insight", "episode"}

\* Nothing fails; or the model lookup or the collection does; or the load
\* or the embedding call of one item does; or a load and an embedding call.
RebuildEnvs ==
    {[fails |-> fs, load |-> {}, embed |-> {}] : fs \in {{}, {"model"}, {"collect"}}}
    \cup {[fails |-> {}, load |-> {i}, embed |-> {}] : i \in Items}
    \cup {[fails |-> {}, load |-> {}, embed |-> {i}] : i \in Items}
    \cup {[fails |-> {}, load |-> {<<"source", 1>>}, embed |-> {<<"note", 1>>}]}

Includes == {<<TRUE, TRUE, TRUE>>, <<TRUE, FALSE, FALSE>>, <<FALSE, TRUE, TRUE>>,
             <<FALSE, FALSE, FALSE>>}

VectorizeFaults ==
    {{}, {"save_in_progress"}, {"model"}, {"embed"}, {"create"},
     {"save_completed"}, {"save_failed"}}

InitEmbed ==
    /\ jobs = <<>>
    /\ now = 0
    /\ uuids = 0
    /\ returned = {}
    /\ last = [op |-> "none"]
    /\ db = [EmptyDb EXCEPT !.source = SeededSources, !.note = SeededNotes,
                            !.source_insight = SeededInsights]
    /\ run = NoRun

NextEmbed ==
    \/ \E m \in ModelIds : UpdateDefaultModels(m)
    \/ \E t \in ItemTypes, id \in {1, 2}, f \in {"", "load", "embed"} :
           EmbedSingleItem(t, id, f)
    \/ \E mode \in {"existing", "all"}, inc \in Includes, env \in RebuildEnvs :
           RebuildEmbeddings(mode, inc[1], inc[2], inc[3], env)

SpecEmbed == InitEmbed /\ [][NextEmbed]_vars

\* The same entities under direct calls of vectorize.
NextVectorize ==
    \/ \E m \in ModelIds : UpdateDefaultModels(m)
    \/ \E id \in {1, 2, 3}, fs \in VectorizeFaults : Vectorize(id, fs)

SpecVectorize == InitEmbed /\ [][NextVectorize]_vars

(***************************************************************************)
(* Properties of rebuild_embeddings.                                       *)
(***************************************************************************)
\* The collected items in the order of the three loops.
CollectedItems(items) ==
    [i \in DOMAIN items.sources |-> <<"source", items.sources[i]>>]
    \o [i \in DOMAIN items.notes |-> <<"note", items.notes[i]>>]
    \o [i \in DOMAIN items.insights |-> <<"insight", items.insights[i]>>]

\* The item fails to load or to embed in the last batch: its load fails,
\* the embedding call made for it fails (none is made for an insight), or
\* it is a source with no text to vectorize.
FailsInBatch(item) ==
    \/ item \in last.env.load
    \/ item \in last.env.embed /\ item[1] # "insight"
    \/ /\ item[1] = "source"
       /\ ~TruthyText(db.source[CHOOSE i \in RowsWithId(db.source, item[2]) : TRUE]
                        .full_text)

C15_RebuildFailsFastWithoutModel ==
    [][(/\ last'.op = "rebuild_embeddings"
        /\ now' = now + 1
        /\ db.default_embedding_model = None)
       => /\ ~last'.ret[1].success
          /\ last'.ret[1].error_message # None
          /\ last'.ret[1].total_items = 0
          /\ last'.ret[1].processed_items = 0
          /\ last'.ret[1].failed_items = 0
          /\ last'.items = None
          /\ last'.attempts = <<>>
          /\ db' = db]_vars

C15_Witness ==
    /\ last.op = "rebuild_embeddings"
    /\ db.default_embedding_model = None
    /\ last.env.fails = {}
    /\ last.include = <<TRUE, TRUE, TRUE>>
    /\ ~last.ret[1].success

(***************************************************************************)
(* Notes: a note is created or a stored note is given new content, and     *)
(* saved, with and without an embedding model.                             *)
(***************************************************************************)
\* Note(notebook_id=.., content=..).save() when id is None; for a stored
\* note: load it, assign the content, save.
SaveNote(id, content, fault) ==
    /\ IF id = None THEN Len(db.note) < MaxRows
       ELSE RowsWithId(db.note, id[1]) # {}
    /\ \E out \in {save("note", [id |-> id, notebook_id |-> 1, content |-> content],
                        db, fault)} :
           /\ db' = out.db
           /\ last' = [op |-> "save_note", id |-> out.obj.id, content |-> content,
                       fault |-> fault, raised |-> out.raised, data |-> out.data]
    /\ UNCHANGED <<jobs, now, uuids, returned, run>>

NoteContents == {None, Some(<<>>), Some(<<" ">>), Some(<<"h">>), Some(<<"h", "i">>)}

NoteIds == {None} \cup {Some(i) : i \in 1 .. MaxRows}

SaveFaults == {{}, {"model"}, {"embed"}, {"write"}}

NextNote ==
    \/ \E m \in ModelIds : UpdateDefaultModels(m)
    \/ \E id \in NoteIds, c \in NoteContents, f \in SaveFaults : SaveNote(id, c, f)

SpecNote == Init /\ [][NextNote]_vars

\* C16: saving a Note whose content is not empty (as the Note validator
\* reads it: not blank), with no call failing, writes the row; the written
\* data carry a non-empty embedding vector when an embedding model is
\* configured, and no embedding when none is, and the save does not raise.
C16_NoteSaveEmbedsWhenModel ==
    (/\ last.op = "save_note"
     /\ last.content # None
     /\ ~Blank(last.content[1])
     /\ last.fault = {})
    => /\ ~last.raised
       /\ last.id # None
       /\ \E i \in DOMAIN db.note :
              /\ db.note[i].id = last.id[1]
              /\ db.note[i].content = last.content
       /\ IF db.default_embedding_model # None
          THEN /\ "embedding" \in DOMAIN last.data
               /\ last.data.embedding # None
               /\ last.data.embedding[1] # <<>>
          ELSE "embedding" \notin DOMAIN last.data

C16_Witness ==
    /\ last.op = "save_note"
    /\ last.content = Some(<<"h", "i">>)
    /\ last.fault = {}
    /\ db.default_embedding_model = None
    /\ ~last.raised
    /\ "embedding" \notin DOMAIN last.data
    /\ Len(db.note) = 1

(***************************************************************************)
(* Properties of Source.vectorize.                                         *)
(***************************************************************************)
\* The stored row of the source with the given id, in the tables d.
StoredSource(d, id) == d.source[CHOOSE i \in RowsWithId(d.source, id) : TRUE]

\* The source_embedding rows of the source with the given id.
EmbeddingRows(d, id) == repo_query(d.source_embedding, "source_id", id)

\* C17: vectorize on a source whose full_text is empty or absent, with no
\* call failing, raises the no-text error, creates no source_embedding
\* row, and leaves the stored processing_status "failed".
C17_VectorizeWithoutText ==
    [][(/\ last'.op = "vectorize"
        /\ now' = now + 1
        /\ last'.fails = {}
        /\ ~TruthyText(StoredSource(db, last'.source_id).full_text))
       => /\ last'.raised
          /\ last'.error = NoTextText
          /\ db'.source_embedding = db.source_embedding
          /\ StoredSource(db', last'.source_id).processing_status = "failed"]_vars

C17_Witness ==
    /\ last.op = "vectorize"
    /\ last.source_id = 3
    /\ last.fails = {}
    /\ StoredSource(db, 3).full_text = None
    /\ last.raised
    /\ StoredSource(db, 3).processing_status = "failed"
    /\ db.source_embedding = <<>>

\* Sources vectorized again and again, directly, through embed_single_item
\* and through rebuild_embeddings, with no injected failure.
NextRevectorize ==
    \/ \E m \in ModelIds : UpdateDefaultModels(m)
    \/ \E id \in {1, 2, 3} : Vectorize(id, {})
    \/ \E id \in {1, 2} : EmbedSingleItem("source", id, "")
    \/ RebuildEmbeddings("all", TRUE, FALSE, FALSE,
                         [fails |-> {}, load |-> {}, embed |-> {}])

SpecRevectorize == InitEmbed /\ [][NextRevectorize]_vars

\* C18: a source that successful vectorize calls have left "completed",
\* and whose full_text splits into n chunks, has exactly n
\* source_embedding rows, however many times it was vectorized.
C18_OneRowPerChunk ==
    \A i \in DOMAIN db.source :
        db.source[i].processing_status = "completed"
        => Len(EmbeddingRows(db, db.source[i].id))
               = Len(split_text(db.source[i].full_text[1]))

(***************************************************************************)
(* update_job_status under concurrent callers.  A call reads the clock     *)
(* and builds its update, and later has the store apply it; the store      *)
(* applies the updates one at a time, in the order they reach it.  run     *)
(* holds one record for each call begun.                                   *)
(***************************************************************************)
\* How many updates have reached the store.
Writes == Cardinality({i \in DOMAIN run : run[i].pc = "returned"})

\* Lines 88-98: the call builds update_data, with the clock as it is now.
BeginUpdate(job_id, status, result, error_message, progress) ==
    /\ now < MaxTime
    /\ now' = now + 1
    /\ run' = Append(run, [op |-> "update_job_status", job_id |-> job_id,
                           status |-> status, result |-> result,
                           error_message |-> error_message,
                           progress |-> progress, clock |-> now,
                           pc |-> "built", seq |-> 0, fault |-> FALSE,
                           hit |-> FALSE, raised |-> FALSE, ret |-> None])
    /\ UNCHANGED <<jobs, uuids, returned, last, db>>

\* Lines 100-102: the update of call i reaches the store, which applies it
\* or fails; the call returns None either way.  seq is the place of the
\* update among those that reached the store, hit whether a row took it.
WriteUpdate(i, fault) ==
    /\ i \in DOMAIN run
    /\ run[i].pc = "built"
    /\ jobs' = update_job_status(jobs, run[i].job_id, run[i].status, run[i].result,
                                 run[i].error_message, run[i].progress,
                                 run[i].clock, fault)
    /\ run' = [run EXCEPT ![i].pc = "returned", ![i].seq = Writes + 1,
                          ![i].fault = fault,
                          ![i].hit = ~fault /\ RowsWithId(jobs, run[i].job_id) # {}]
    /\ last' = [op |-> "update_job_status", job_id |-> run[i].job_id,
                status |-> run[i].status, result |-> run[i].result,
                error_message |-> run[i].error_message,
                progress |-> run[i].progress, fault |-> fault, raised |-> FALSE,
                ret |-> None]
    /\ UNCHANGED <<now, uuids, returned, db>>

\* The racing calls aim at the first job or at a second id, and set one of
\* three statuses.
RaceJobIds == {1, 2}

RaceStatuses == {"in_progress", "completed", "failed"}

NextRace ==
    \/ SubmitJob("open_notebook", "process_source", PyDict(<<>>), FALSE)
    \/ \E id \in RaceJobIds, s \in RaceStatuses :
           BeginUpdate(id, s, PyNone, None, None)
    \/ \E i \in 1 .. MaxTime, f \in BOOLEAN : WriteUpdate(i, f)

SpecRace == Init /\ [][NextRace]_vars

\* The calls on job id whose update a stored row took.
AppliedCalls(id) == {i \in DOMAIN run : run[i].job_id = id /\ run[i].hit}

\* C19: when all the update_status calls begun have finished, the stored
\* status of a job is that of the call whose update was applied to it
\* last, whatever status was stored before and in whatever order the calls
\* began; and no call raised or returned anything to its caller.
C19_LastWriterWins ==
    (\A i \in DOMAIN run : run[i].pc = "returned")
    => /\ \A i \in DOMAIN run : ~run[i].raised /\ run[i].ret = None
       /\ \A id \in JobIds :
              AppliedCalls(id) # {}
              => LET w == CHOOSE i \in AppliedCalls(id) :
                              \A k \in AppliedCalls(id) : run[k].seq <= run[i].seq
                 IN  \A r \in RowsWithId(jobs, id) : jobs[r].status = run[w].status

C19_Witness ==
    /\ Len(run) = 2
    /\ run[1].job_id = 1 /\ run[2].job_id = 1
    /\ run[1].hit /\ run[2].hit
    /\ run[1].seq = 2 /\ run[2].seq = 1
    /\ run[2].status = "completed"
    /\ run[1].status = "in_progress"
    /\ \E r \in RowsWithId(jobs, 1) : jobs[r].status = "in_progress"

(***************************************************************************)
(* process_source_command one awaited call at a time, with cancel_job      *)
(* called on its job in between.  run holds the record of the one handler  *)
(* running: its arguments, the calls that will fail, the store as it      *)
(* found it (db0), the clock as it started, where it stands (pc) and its   *)
(* local variables.                                                        *)
(***************************************************************************)
\* The handler h after its next call, and the store after it.  h.pc names
\* the call: "get", "save_in_progress", "graph" (the transformation
\* lookups and source_graph), "save_completed", "count" (get_embedded_chunks
\* and get_insights), "except" (the except clause), then "returned".
process_source_step(h, d) ==
    LET fail(e) == [h EXCEPT !.pc = "except", !.error = e]
        return(r) == [h EXCEPT !.pc = "returned", !.ret = Some(r)]
        loaded(g) ==
            IF g.raised
            THEN [h |-> return(source_failure(h.source_id, g.error)), db |-> d]
            ELSE [h |-> [h EXCEPT !.pc = "save_in_progress", !.source = g.obj],
                  db |-> d]
        marked(s1) ==
            IF s1.raised
            THEN [h |-> [fail(s1.error) EXCEPT !.source = Some(s1.obj)], db |-> s1.db]
            ELSE [h |-> [h EXCEPT !.pc = "graph", !.source = Some(s1.obj)],
                  db |-> s1.db]
        missing ==
            \E i \in DOMAIN h.transformations :
                get("transformation", d, h.transformations[i], FALSE).raised
        transformation_objects ==
            [i \in DOMAIN h.transformations |->
                get("transformation", d, h.transformations[i], FALSE).obj[1]]
        transformed(graph) ==
            IF graph.raised
            THEN [h |-> fail(graph.error), db |-> graph.db]
            ELSE [h |-> [h EXCEPT !.pc = "save_completed",
                                  !.processed_source = Some(graph.source)],
                  db |-> graph.db]
        completed(s2) ==
            IF s2.raised
            THEN [h |-> fail(s2.error), db |-> s2.db]
            ELSE [h |-> [h EXCEPT !.pc = "count", !.processed_source = Some(s2.obj)],
                  db |-> s2.db]
        excepted(s3) ==
            IF s3.raised
            THEN [h |-> [h EXCEPT !.pc = "returned", !.raised = TRUE], db |-> s3.db]
            ELSE [h |-> return(source_failure(h.source_id, h.error)), db |-> s3.db]
    IN  CASE h.pc = "get" ->
               loaded(get("source", d, h.source_id, "get" \in h.fails))
          [] h.pc = "save_in_progress" ->
               marked(save("source",
                           [h.source[1] EXCEPT !.processing_status = "in_progress"],
                           d, W("save_in_progress" \in h.fails)))
          [] h.pc = "graph" ->
               IF missing
               THEN [h |-> fail(TransformationNotFoundText), db |-> d]
               ELSE transformed(source_graph(d, h.source_id, h.content,
                                             transformation_objects, h.embed,
                                             "graph" \in h.fails))
          [] h.pc = "save_completed" ->
               completed(save("source",
                              [h.processed_source[1] EXCEPT
                                  !.processing_status = "completed"],
                              d, W("save_completed" \in h.fails)))
          [] h.pc = "count" ->
               LET id == h.processed_source[1].id[1]
                   embedded_chunks ==
                       IF h.embed
                       THEN Len(repo_query(d.source_embedding, "source_id", id))
                       ELSE 0
                   insights_created ==
                       Len(repo_query(d.source_insight, "source_id", id))
               IN  IF (h.embed /\ "chunks" \in h.fails) \/ "insights" \in h.fails
                   THEN [h |-> fail(StoreErrorText), db |-> d]
                   ELSE [h |-> return(source_success(id, embedded_chunks,
                                                     insights_created)),
                         db |-> d]
          [] h.pc = "except" ->
               excepted(save("source",
                             [h.source[1] EXCEPT !.processing_status = "failed"],
                             d, W("save_failed" \in h.fails)))

\* The worker starts the handler of job job_id.
StartProcessSource(job_id, source_id, content, transformations, embed, fails) ==
    /\ run = NoRun
    /\ RowsWithId(jobs, job_id) # {}
    /\ run' = <<[op |-> "process_source", job_id |-> job_id,
                 source_id |-> source_id, content |-> content,
                 transformations |-> transformations, embed |-> embed,
                 fails |-> fails, db0 |-> db, started |-> now, pc |-> "get",
                 source |-> None,
                 processed_source |-> None, error |-> "", raised |-> FALSE,
                 ret |-> None, steps |-> <<>>]>>
    /\ UNCHANGED <<jobs, now, uuids, returned, last, db>>

\* The running handler makes its next call.
StepProcessSource ==
    /\ run # NoRun
    /\ run[1].pc # "returned"
    /\ \E out \in {process_source_step(run[1], db)} :
           /\ run' = <<[out.h EXCEPT !.steps = Append(@, run[1].pc)]>>
           /\ db' = out.db
           /\ last' = IF out.h.pc = "returned"
                      THEN [op |-> "process_source", source_id |-> out.h.source_id,
                            transformations |-> out.h.transformations,
                            embed |-> out.h.embed, fails |-> out.h.fails,
                            raised |-> out.h.raised, ret |-> out.h.ret]
                      ELSE last
    /\ UNCHANGED <<jobs, now, uuids, returned>>

InitCancel ==
    /\ InitSource
    /\ \E m \in ModelIds : db.default_embedding_model = m

NextCancel ==
    \/ SubmitJob("open_notebook", "process_source", PyDict(<<>>), FALSE)
    \/ \E id \in JobIds, c \in Contents, ts \in TransformationLists,
          e \in BOOLEAN, fs \in ProcessSourceFaults :
           StartProcessSource(id, 1, c, ts, e, fs)
    \/ StepProcessSource
    \/ \E id \in JobIds, f \in BOOLEAN : CancelCommandJob(id, f)

SpecCancel == InitCancel /\ [][NextCancel]_vars

\* The step is a call of cancel_job.
CancelStep == now' = now + 1 /\ last'.op = "cancel_command_job"

\* What the handler does when nothing else runs: all its calls in a row.
Uncancelled(h) ==
    process_source(h.db0, h.source_id, h.content, h.transformations, h.embed, h.fails)

\* The calls the handler h has made lead where they lead without a cancel.
RECURSIVE StepsFrom(_, _, _)
StepsFrom(h, d, n) ==
    IF n = 0 \/ h.pc = "returned" THEN [h |-> h, db |-> d]
    ELSE LET out == process_source_step(h, d)
         IN  StepsFrom(out.h, out.db, n - 1)

\* C20: cancel_job changes the job table only: it leaves the store of
\* entities and the running handler as they are; and the handler, cancelled
\* or not, makes the calls and the writes it makes when run alone: after
\* each of its calls its position, its variables and the store are those
\* of the same number of calls made in a row from the store it found, and
\* when it returns, its payload and the store (the status of the source
\* with it) are those of process_source_command run without a cancel.
C20_CancelIsAdvisory ==
    [][/\ CancelStep => db' = db /\ run' = run
       /\ run' # NoRun
          => LET h == run'[1]
                 h0 == [h EXCEPT !.pc = "get", !.source = None,
                                 !.processed_source = None, !.error = "",
                                 !.raised = FALSE, !.ret = None, !.steps = <<>>]
                 alone == StepsFrom(h0, h.db0, Len(h.steps))
             IN  /\ [alone.h EXCEPT !.steps = h.steps] = h
                 /\ alone.db = db'
                 /\ h.pc = "returned"
                    => /\ Uncancelled(h).db = db'
                       /\ Uncancelled(h).raised = h.raised
                       /\ Uncancelled(h).ret = h.ret]_vars

\* The job was cancelled while its handler stood between two calls, and the
\* handler has returned success with the source completed.
C20_Witness ==
    /\ run # NoRun
    /\ run[1].pc = "returned"
    /\ run[1].ret # None
    /\ run[1].ret[1].success
    /\ StoredStatus(1) = "completed"
    /\ \E r \in RowsWithId(jobs, run[1].job_id) :
           /\ jobs[r].status = "cancelled"
           /\ jobs[r].updated_at >= run[1].started
    /\ last.op = "process_source"

(***************************************************************************)
(* generate_podcast_command (commands/podcast_commands.py), one awaited    *)
(* call at a time.  run holds the record of the handler: its arguments,    *)
(* the calls that will fail, where it stands (pc) and its local variables  *)
(* (the two profiles and the episode object).                              *)
(***************************************************************************)
\* What create_podcast returns: the path of the audio file, the transcript
\* and the outline.
create_podcast(content, briefing, episode_name) ==
    [final_output_file_path |-> <<"e", "p">>, transcript |-> <<"t">>,
     outline |-> <<"o">>]

\* The handler h after its next call, and the store after it.  h.pc names
\* the call: "episode_profile" and "speaker_profile" (the get_by_name
\* lookups), "save_starting", "configure" (the get_all queries, configure
\* and mkdir), "save_generating", "create_podcast", "save_completed",
\* "except" (the except clause), then "returned".
generate_podcast_step(h, d) ==
    LET fail(e) == [h EXCEPT !.pc = "except", !.error = e]
        return(r) == [h EXCEPT !.pc = "returned", !.ret = Some(r)]
        failure(e) == [success |-> FALSE, episode_id |-> None,
                       audio_file_path |-> None, error_message |-> Some(e)]
        found(rows, next, field) ==
            IF h.pc \in h.fails THEN fail(StoreErrorText)
            ELSE IF rows = <<>> THEN fail("profile not found")
            ELSE [h EXCEPT !.pc = next, ![field] = Some(rows[1])]
        saved(s, next) ==
            IF s.raised
            THEN [h |-> [fail(s.error) EXCEPT !.episode = Some(s.obj)], db |-> s.db]
            ELSE [h |-> [h EXCEPT !.pc = next, !.episode = Some(s.obj)], db |-> s.db]
        completed(s) ==
            IF s.raised
            THEN [h |-> [fail(s.error) EXCEPT !.episode = Some(s.obj)], db |-> s.db]
            ELSE [h |-> [return([success |-> TRUE, episode_id |-> s.obj.id,
                                 audio_file_path |-> s.obj.audio_file,
                                 error_message |-> None])
                            EXCEPT !.episode = Some(s.obj)],
                  db |-> s.db]
        excepted(s) ==
            IF s.raised
            THEN [h |-> [h EXCEPT !.pc = "returned", !.raised = TRUE], db |-> s.db]
            ELSE [h |-> [return(failure(h.error)) EXCEPT !.episode = Some(s.obj)],
                  db |-> s.db]
        result == create_podcast(h.content, h.episode[1].briefing, h.episode_name)
    IN  CASE h.pc = "episode_profile" ->
               [h |-> found(repo_query(d.episode_profile, "name",
                                       h.episode_profile_name),
                            "speaker_profile", "episode_profile"),
                db |-> d]
          [] h.pc = "speaker_profile" ->
               [h |-> found(repo_query(d.speaker_profile, "name",
                                       h.episode_profile[1].speaker_config),
                            "save_starting", "speaker_profile"),
                db |-> d]
          [] h.pc = "save_starting" ->
               saved(save("episode",
                          [id |-> None, name |-> h.episode_name,
                           briefing |-> h.episode_profile[1].default_briefing
                                        \o (IF TruthyText(h.briefing_suffix)
                                            THEN <<"+">> \o h.briefing_suffix[1]
                                            ELSE <<>>),
                           content |-> h.content, status |-> "starting",
                           audio_file |-> None, transcript |-> None,
                           outline |-> None],
                          d, W("save_starting" \in h.fails)),
                     "configure")
          [] h.pc = "configure" ->
               [h |-> IF "configure" \in h.fails THEN fail(StoreErrorText)
                      ELSE [h EXCEPT !.pc = "save_generating"],
                db |-> d]
          [] h.pc = "save_generating" ->
               saved(save("episode", [h.episode[1] EXCEPT !.status = "generating"],
                          d, W("save_generating" \in h.fails)),
                     "create_podcast")
          [] h.pc = "create_podcast" ->
               [h |-> IF "create_podcast" \in h.fails THEN fail("podcast generation failed")
                      ELSE [h EXCEPT !.pc = "save_completed"],
                db |-> d]
          [] h.pc = "save_completed" ->
               completed(save("episode",
                              [h.episode[1] EXCEPT
                                  !.audio_file = Some(result.final_output_file_path),
                                  !.transcript = Some(result.transcript),
                                  !.outline = Some(result.outline),
                                  !.status = "completed"],
                              d, W("save_completed" \in h.fails)))
          [] h.pc = "except" ->
               IF h.episode = None
               THEN [h |-> return(failure(h.error)), db |-> d]
               ELSE excepted(save("episode", [h.episode[1] EXCEPT !.status = "failed"],
                                  d, W("save_failed" \in h.fails)))

\* The handler is called with its arguments.
StartGeneratePodcast(episode_profile_name, episode_name, content, briefing_suffix, fails) ==
    /\ IF run = NoRun THEN TRUE ELSE run[1].pc = "returned"
    /\ Len(db.episode) < MaxRows
    /\ run' = <<[op |-> "generate_podcast",
                 episode_profile_name |-> episode_profile_name,
                 episode_name |-> episode_name, content |-> content,
                 briefing_suffix |-> briefing_suffix, fails |-> fails,
                 pc |-> "episode_profile", episode_profile |-> None,
                 speaker_profile |-> None, episode |-> None, error |-> "",
                 raised |-> FALSE, ret |-> None]>>
    /\ UNCHANGED <<jobs, now, uuids, returned, last, db>>

\* The running handler makes its next call.
StepGeneratePodcast ==
    /\ run # NoRun
    /\ run[1].pc # "returned"
    /\ \E out \in {generate_podcast_step(run[1], db)} :
           /\ run' = <<out.h>>
           /\ db' = out.db
           /\ last' = IF out.h.pc = "returned"
                      THEN [op |-> "generate_podcast", fails |-> out.h.fails,
                            episode_profile_name |-> out.h.episode_profile_name,
                            raised |-> out.h.raised, ret |-> out.h.ret]
                      ELSE last
    /\ UNCHANGED <<jobs, now, uuids, returned>>

\* Two episode profiles are stored, "tech" whose speaker profile "duo" is
\* stored too, and "solo" whose speaker profile is not.
InitPodcast ==
    /\ jobs = <<>>
    /\ now = 0
    /\ uuids = 0
    /\ returned = {}
    /\ last = [op |-> "none"]
    /\ db = [EmptyDb EXCEPT
                !.episode_profile =
                    <<[id |-> 1, name |-> "tech", speaker_config |-> "duo",
                       default_briefing |-> <<"b">>],
                      [id |-> 2, name |-> "solo", speaker_config |-> "gone",
                       default_briefing |-> <<"b">>]>>,
                !.speaker_profile = <<[id |-> 1, name |-> "duo"]>>]
    /\ run = NoRun

\* One call of the handler fails, or none; the save of the except clause
\* fails or not.
NextPodcast ==
    \/ \E p \in {"tech", "solo", "none"}, s \in {None, Some(<<"x">>)},
          fs \in {f \in SUBSET {"episode_profile", "speaker_profile",
                                "save_starting", "configure", "save_generating",
                                "create_podcast", "save_completed", "save_failed"} :
                     Cardinality(f \ {"save_failed"}) <= 1} :
           StartGeneratePodcast(p, "ep", <<"c">>, s, fs)
    \/ StepGeneratePodcast

SpecPodcast == InitPodcast /\ [][NextPodcast]_vars

\* The fields generate_podcast attaches to an episode.
Attached(row) == <<row.audio_file, row.transcript, row.outline>>

\* The moves of the stored status of an episode.
EpisodeMoves ==
    {<<"starting", "generating">>, <<"generating", "completed">>,
     <<"generating", "failed">>, <<"starting", "failed">>}

\* C21: an episode of generate_podcast is stored first with status
\* "starting" and nothing attached; its stored status then only moves
\* starting -> generating -> completed or failed, or starting -> failed;
\* audio_file, transcript and outline change only on the step that sets
\* "completed"; and when the handler returns a payload for an episode it
\* stored, the stored status is "completed" if success is true and
\* "failed" if it is false.
C21_EpisodeStatusPath ==
    [][/\ \A i \in DOMAIN db'.episode :
              IF i \in DOMAIN db.episode
              THEN /\ \/ db'.episode[i].status = db.episode[i].status
                      \/ <<db.episode[i].status, db'.episode[i].status>>
                             \in EpisodeMoves
                   /\ Attached(db'.episode[i]) # Attached(db.episode[i])
                      => /\ db'.episode[i].status = "completed"
                         /\ db.episode[i].status # "completed"
              ELSE /\ db'.episode[i].status = "starting"
                   /\ Attached(db'.episode[i]) = <<None, None, None>>
       /\ (/\ run' # NoRun
           /\ run # run'
           /\ run'[1].op = "generate_podcast"
           /\ run'[1].pc = "returned"
           /\ run'[1].ret # None
           /\ run'[1].episode # None)
          => \A i \in RowsWithId(db'.episode, run'[1].episode[1].id[1]) :
                 db'.episode[i].status =
                     IF run'[1].ret[1].success THEN "completed" ELSE "failed"]_vars

(***************************************************************************)
(* Properties of the rebuild modes and of the embedding of insights.       *)
(***************************************************************************)
\* The item has an embedding in the store d: a source has a
\* source_embedding row, a note or an insight a vector in its row.
HasEmbedding(d, item_type, item_id) ==
    IF item_type = "source"
    THEN repo_query(d.source_embedding, "source_id", item_id) # <<>>
    ELSE \E i \in RowsWithId(d[ItemTable(item_type)], item_id) :
             LET row == d[ItemTable(item_type)][i]
             IN  "embedding" \in DOMAIN row /\ row.embedding # None

\* C22: a rebuild_embeddings in mode "existing" that collects its items
\* attempts only items that had an embedding when it started; and when some
\* item of an included category that mode "all" attempts has no embedding,
\* mode "all" called in the same state attempts other items than mode
\* "existing" does.
C22_ModeSelectsItems ==
    [][(/\ last'.op = "rebuild_embeddings"
        /\ now' = now + 1
        /\ last'.items # None)
       => LET attempted(mode) ==
                  rebuild_embeddings(db, mode, last'.include[1], last'.include[2],
                                     last'.include[3], last'.env).attempts
              items(mode) ==
                  {<<attempted(mode)[i].item_type, attempted(mode)[i].item_id>> :
                      i \in DOMAIN attempted(mode)}
          IN  /\ last'.mode = "existing"
                 => \A i \in DOMAIN last'.attempts :
                        HasEmbedding(db, last'.attempts[i].item_type,
                                     last'.attempts[i].item_id)
              /\ (\E it \in items("all") : ~HasEmbedding(db, it[1], it[2]))
                 => items("all") # items("existing")]_vars

\* C23: with an embedding model configured, an insight that
\* embed_single_item or the insight pass of rebuild_embeddings reports as
\* processed has in its row the vector the embedding model gives for its
\* content.
C23_InsightIsEmbedded ==
    LET embedded(id) ==
            \A i \in RowsWithId(db.source_insight, id) :
                /\ "embedding" \in DOMAIN db.source_insight[i]
                /\ db.source_insight[i].embedding
                       = Some(aembed(<<db.source_insight[i].content>>)[1])
    IN  /\ (/\ last.op = "embed_single_item"
            /\ last.item_type = "insight"
            /\ last.ret[1].success
            /\ db.default_embedding_model # None)
           => embedded(last.item_id)
        /\ (/\ last.op = "rebuild_embeddings"
            /\ db.default_embedding_model # None)
           => \A k \in DOMAIN last.attempts :
                  (last.attempts[k].item_type = "insight" /\ last.attempts[k].ok)
                  => embedded(last.attempts[k].item_id)

\* C25: when the embedding call fails during the save of a Note that has
\* content, with an embedding model configured, save raises and the store
\* is as it was: no row is created for a new note and no field of a stored
\* note's row changes.
C25_EmbedFailureLeavesStore ==
    [][(/\ last'.op = "save_note"
        /\ "embed" \in last'.fault
        /\ TruthyText(last'.content)
        /\ db.default_embedding_model # None)
       => /\ last'.raised
          /\ last'.data = <<>>
          /\ db' = db]_vars

\* The save of a new note and the save of new content for a stored note
\* have each raised on the embedding call.
C25_Witness ==
    /\ last.op = "save_note"
    /\ last.fault = {"embed"}
    /\ last.content = Some(<<"h">>)
    /\ last.raised
    /\ db.default_embedding_model # None
    /\ Len(db.note) = 1
    /\ last.id = Some(1)
    /\ db.note[1].content = Some(<<"h", "i">>)

(***************************************************************************)
(* Properties of submitting under a running event loop and of the value    *)
(* cancel returns.                                                         *)
(***************************************************************************)
\* C26: CommandService.submit_command_job, awaited inside a running event
\* loop, does what submit_command does with no loop running: it does not
\* raise, it returns the id of a job, and a record with that id is stored
\* with status "pending".
C26_AsyncSubmitPersists ==
    last.op = "submit_command_job"
    => /\ ~last.raised
       /\ last.ret # None
       /\ \E i \in DOMAIN jobs :
              jobs[i].id = last.ret[1] /\ jobs[i].status = "pending"

\* C27: when cancel has returned true, a job record with the given id is
\* stored and its status is "cancelled"; and cancel creates no record.
C27_CancelReportsTruth ==
    [][(last'.op = "cancel_command_job" /\ now' = now + 1)
       => /\ last'.ret = Some(TRUE)
             => \E i \in DOMAIN jobs' :
                    jobs'[i].id = last'.job_id /\ jobs'[i].status = "cancelled"
          /\ Len(jobs') = Len(jobs)]_vars

\* C30: a vectorize call that fails, at whatever step, leaves the
\* source_embedding rows of the source as they were: rows are added only
\* by a call that ends with the stored processing_status "completed".
C30_VectorizeAllOrNothing ==
    [][(/\ last'.op = "vectorize"
        /\ now' = now + 1
        /\ \/ last'.raised
           \/ StoredSource(db', last'.source_id).processing_status # "completed")
       => EmbeddingRows(db', last'.source_id) = EmbeddingRows(db, last'.source_id)]_vars

(***************************************************************************)
(* Handlers beside the job store: jobs are submitted, updated and          *)
(* cancelled while process_source, embed_single_item and                   *)
(* rebuild_embeddings run on the stored source, completing or failing.     *)
(***************************************************************************)
NextHandlers ==
    \/ SubmitJob("open_notebook", "process_source", PyDict(<<>>), FALSE)
    \/ \E id \in JobIds, s \in {"in_progress", "completed"}, f \in BOOLEAN :
           UpdateJobStatus(id, s, PyNone, None, Some(50), f)
    \/ \E id \in JobIds, f \in BOOLEAN : CancelCommandJob(id, f)
    \/ \E ts \in {<<>>, <<1>>}, e \in BOOLEAN,
          fs \in {{}, {"graph"}, {"save_completed", "save_failed"}} :
           ProcessSource(1, <<"a", "b", "c">>, ts, e, fs)
    \/ \E f \in {"", "embed"} : EmbedSingleItem("source", 1, f)
    \/ \E env \in {[fails |-> fs, load |-> {}, embed |-> {}] :
                      fs \in {{}, {"model"}}} :
           RebuildEmbeddings("all", TRUE, TRUE, TRUE, env)

SpecHandlers == InitCancel /\ [][NextHandlers]_vars

\* The step is a call of update_job_status or cancel_job that names the job.
JobWriteStep(job_id) ==
    /\ now' = now + 1
    /\ last'.op \in {"update_job_status", "cancel_command_job"}
    /\ last'.job_id = job_id

\* C28: no command handler reads or writes the job store.  A step of a
\* handler, whether it completes or fails, leaves the job table as it was; a
\* job row changes only in a step of update_status or cancel that names it;
\* so a submitted job that receives neither is PENDING with progress 0 after
\* every step.
C28_HandlersLeaveJobs ==
    [][/\ (now' = now + 1 /\ last'.op \in HandlerOps) => jobs' = jobs
       /\ \A i \in DOMAIN jobs :
              /\ i \in DOMAIN jobs'
              /\ ~JobWriteStep(jobs[i].id) => jobs'[i] = jobs[i]
              /\ (/\ jobs[i].status = "pending"
                  /\ jobs[i].progress = 0
                  /\ ~JobWriteStep(jobs[i].id))
                 => (jobs'[i].status = "pending" /\ jobs'[i].progress = 0)]_vars

\* A job is PENDING with progress 0, and was never written, although a
\* handler has completed on the source after it was submitted.
C28_Witness ==
    /\ Len(jobs) >= 1
    /\ jobs[1].status = "pending"
    /\ jobs[1].progress = 0
    /\ jobs[1].updated_at = jobs[1].created_at
    /\ now >= 2
    /\ last.op = "process_source"
    /\ last.ret[1].success
    /\ StoredSource(db, 1).processing_status = "completed"

(***************************************************************************)
(* Two handlers on one source.  Each handler is a record of run and makes  *)
(* one awaited call per step; the steps of the two interleave freely, and  *)
(* Source.add_to_notebook writes the same row between them.                *)
(***************************************************************************)
\* Source.vectorize one awaited call at a time; the first save is outside
\* the try block, and each record is inserted by a call of its own.
vectorize_step(h, d) ==
    LET self == h.source[1]
        fail(e) == [h EXCEPT !.pc = "except", !.error = e]
        marked(s1) ==
            IF s1.raised
            THEN [h |-> [h EXCEPT !.pc = "returned", !.raised = TRUE,
                                  !.error = s1.error],
                  db |-> d]
            ELSE [h |-> [h EXCEPT !.pc = "embed", !.source = Some(s1.obj)],
                  db |-> s1.db]
        embedded(model) ==
            LET text == self.full_text
                chunks == split_text(text[1])
                embeddings == aembed(chunks)
            IN  IF ~TruthyText(text) THEN fail(NoTextText)
                ELSE IF model.raised \/ model.model = None THEN fail(NoModelText)
                ELSE IF "embed" \in h.fails THEN fail(EmbedErrorText)
                ELSE [h EXCEPT !.pc = "create",
                               !.records =
                                   [i \in DOMAIN chunks |->
                                       [source_id |-> self.id[1],
                                        content |-> chunks[i],
                                        embedding |-> embeddings[i]]]]
        completed(s2) ==
            IF s2.raised
            THEN [h |-> fail(s2.error), db |-> s2.db]
            ELSE [h |-> [h EXCEPT !.pc = "returned", !.source = Some(s2.obj)],
                  db |-> s2.db]
        excepted(s3) ==
            [h |-> [h EXCEPT !.pc = "returned", !.raised = TRUE,
                             !.source = Some(s3.obj),
                             !.error = IF s3.raised THEN s3.error ELSE h.error],
             db |-> s3.db]
    IN  CASE h.pc = "save_in_progress" ->
               marked(save("source", [self EXCEPT !.processing_status = "in_progress"],
                           d, W("save_in_progress" \in h.fails)))
          [] h.pc = "embed" ->
               [h |-> embedded(get_embedding_model(d, "model" \in h.fails)), db |-> d]
          [] h.pc = "create" ->
               IF h.records = <<>>
               THEN [h |-> [h EXCEPT !.pc = "save_completed"], db |-> d]
               ELSE IF Len(h.records) = 1 /\ "create" \in h.fails
               THEN [h |-> fail(StoreErrorText), db |-> d]
               ELSE [h |-> [h EXCEPT !.records = Tail(@)],
                     db |-> [d EXCEPT !.source_embedding =
                                create_records(@, <<Head(h.records)>>)]]
          [] h.pc = "save_completed" ->
               completed(save("source", [self EXCEPT !.processing_status = "completed"],
                              d, W("save_completed" \in h.fails)))
          [] h.pc = "except" ->
               excepted(save("source", [self EXCEPT !.processing_status = "failed"],
                             d, W("save_failed" \in h.fails)))

\* The places of run: the two handlers that work on the source.
Handlers == {1, 2}

\* A handler is started on the stored source: process_source_command with
\* its arguments, or vectorize on the object its caller has loaded.  The
\* record notes where the handlers started before it stand.
StartHandler(op, source_id, content, transformations, embed, fails) ==
    /\ Len(run) < Cardinality(Handlers)
    /\ RowsWithId(db.source, source_id) # {}
    /\ run' = Append(run,
                     [op |-> op, source_id |-> source_id, content |-> content,
                      transformations |-> transformations, embed |-> embed,
                      fails |-> fails,
                      pc |-> IF op = "vectorize" THEN "save_in_progress" ELSE "get",
                      source |-> IF op = "vectorize"
                                 THEN get("source", db, source_id, FALSE).obj
                                 ELSE None,
                      processed_source |-> None, records |-> <<>>,
                      error |-> "", raised |-> FALSE, ret |-> None,
                      seen |-> [j \in DOMAIN run |-> run[j].pc]])
    /\ UNCHANGED <<jobs, now, uuids, returned, last, db>>

\* A step whose status save is dropped when the stored status is terminal.
StepHandler_guarded(i) ==
    /\ i \in DOMAIN run
    /\ run[i].pc # "returned"
    /\ \E out \in {IF run[i].op = "vectorize" THEN vectorize_step(run[i], db)
                   ELSE process_source_step(run[i], db)} :
           /\ run' = [run EXCEPT ![i] = out.h]
           /\ db' = IF /\ run[i].pc \in {"save_in_progress", "save_completed", "except"}
                       /\ \E r \in DOMAIN db.source :
                              /\ db.source[r].id = run[i].source_id
                              /\ db.source[r].processing_status \in
                                     {"completed", "failed"}
                    THEN db
                    ELSE out.db
           /\ last' = [op |-> run[i].op, handler |-> i, pc |-> run[i].pc,
                       source_id |-> run[i].source_id, fails |-> run[i].fails,
                       raised |-> out.h.raised, ret |-> out.h.ret]
    /\ UNCHANGED <<jobs, now, uuids, returned>>

\* The handler in place i makes its next awaited call.
StepHandler(i) ==
    /\ i \in DOMAIN run
    /\ run[i].pc # "returned"
    /\ \E out \in {IF run[i].op = "vectorize" THEN vectorize_step(run[i], db)
                   ELSE process_source_step(run[i], db)} :
           /\ run' = [run EXCEPT ![i] = out.h]
           /\ db' = out.db
           /\ last' = [op |-> run[i].op, handler |-> i, pc |-> run[i].pc,
                       source_id |-> run[i].source_id, fails |-> run[i].fails,
                       raised |-> out.h.raised, ret |-> out.h.ret]
    /\ UNCHANGED <<jobs, now, uuids, returned>>

NotebookIds == {1, 2}

\* Another writer: the source is loaded and source.add_to_notebook(notebook_id)
\* saves it.
AddToNotebook(source_id, notebook_id) ==
    /\ RowsWithId(db.source, source_id) # {}
    /\ \E out \in {save("source",
                        [get("source", db, source_id, FALSE).obj[1]
                            EXCEPT !.notebook_id = notebook_id],
                        db, W(FALSE))} :
           /\ db' = out.db
           /\ last' = [op |-> "add_to_notebook", source_id |-> source_id,
                       notebook_id |-> notebook_id, raised |-> out.raised]
    /\ UNCHANGED <<jobs, now, uuids, returned, run>>

NextConcurrent ==
    \/ \E ts \in {<<1>>}, e \in BOOLEAN,
          fs \in {{}, {"graph"}, {"save_completed"}, {"insights"},
                  {"graph", "save_failed"}} :
           StartHandler("process_source", 1, <<"a", "b", "c">>, ts, e, fs)
    \/ \E fs \in {{}, {"embed"}, {"create"}, {"save_completed", "save_failed"}} :
           StartHandler("vectorize", 1, <<>>, <<>>, FALSE, fs)
    \/ \E i \in Handlers : StepHandler(i)
    \/ \E nb \in NotebookIds : AddToNotebook(1, nb)

SpecConcurrent == InitCancel /\ [][NextConcurrent]_vars

\* The processing_status the next call of handler h saves, "" when that call
\* is no save of the source.
StatusSaved(h) ==
    CASE h.pc = "save_in_progress" -> "in_progress"
      [] h.pc = "save_completed" -> "completed"
      [] h.pc = "except" -> "failed"
      [] OTHER -> ""

\* The store refuses the save that is the next call of handler h.
SaveRefused(h) ==
    (IF h.pc = "except" THEN "save_failed" ELSE h.pc) \in h.fails

\* The handler in place i makes a call in this step.
Stepped(i) == i \in DOMAIN run /\ run'[i] # run[i]

\* C24: two handlers on the same source are not serialised.  Whatever the
\* other handler has done, a status save the store accepts is applied: the
\* stored processing_status is the saved value after the step; a refused
\* save, a call that is neither a save nor the ingestion workflow, the start
\* of a handler and another writer leave the stored status as it was, so it
\* is always the value written last; and no later write changes what a
\* returned handler has returned.
C24_LastStatusWriteWins ==
    [][/\ \A i \in DOMAIN run :
              /\ i \in DOMAIN run'
              /\ (Stepped(i) /\ StatusSaved(run[i]) # "" /\ ~SaveRefused(run[i]))
                 => StoredSource(db', 1).processing_status = StatusSaved(run[i])
              /\ (Stepped(i) /\ StatusSaved(run[i]) # "" /\ SaveRefused(run[i]))
                 => db' = db
              /\ (Stepped(i) /\ StatusSaved(run[i]) = "" /\ run[i].pc # "graph")
                 => StoredSource(db', 1).processing_status
                        = StoredSource(db, 1).processing_status
              /\ run[i].pc = "returned" => run'[i] = run[i]
       /\ (\A i \in DOMAIN run : ~Stepped(i))
          => StoredSource(db', 1).processing_status
                 = StoredSource(db, 1).processing_status]_vars

\* Both handlers have finished; the second was started while the first was
\* between its calls; the first has returned success=true and the stored
\* processing_status of the source is "failed".
C24_Witness ==
    /\ Len(run) = 2
    /\ run[1].pc = "returned"
    /\ run[2].pc = "returned"
    /\ run[2].seen[1] \notin {"get", "returned"}
    /\ run[1].op = "process_source"
    /\ run[1].ret # None
    /\ run[1].ret[1].success
    /\ StoredSource(db, 1).processing_status = "failed"

\* C29: when a handler marks the source failed and the store accepts the
\* save, the stored row differs from the row before the step in
\* processing_status only: notebook_id and full_text keep the values last
\* written to the store, by whichever writer.
C29_FailedMarkWritesStatusOnly ==
    [][\A i \in DOMAIN run :
           (Stepped(i) /\ run[i].pc = "except" /\ ~SaveRefused(run[i]))
           => StoredSource(db', 1)
                  = [StoredSource(db, 1) EXCEPT !.processing_status = "failed"]]_vars

=============================================================================
